---- MODULE Spec2Model ----
(***************************************************************************)
(* Pane widget of the charting library: the pointer/touch interaction      *)
(* controller (PaneWidget), its hit test, its resize entry point, its      *)
(* paint pipeline, the queue of animation frames used by kinetic scrolling *)
(* and the area renderer (PaneRendererArea).                               *)
(*                                                                         *)
(* An optional value is a sequence of length 0 (null) or 1.  A handler is  *)
(* an operator on a record s of the mutable fields; s.calls is the list of *)
(* calls the handler made on its collaborators and s.err the error it      *)
(* threw ("" when it returned normally).  Fields assigned before a throw   *)
(* keep their new values, as in the source.                                *)
(***************************************************************************)
EXTENDS Integers, Sequences, FiniteSets, TLC

\* ---------------------------------------------------------------- bounds
MaxCoord == 2
MaxDuration == 2
MaxTicks == 2
MaxScale == 2
MaxSources == 2
MaxViews == 2
MaxItems == 3

VARIABLES
    state,                      \* _state: "pane" or "null"
    size,                       \* _size
    canvasSize,                 \* size of the content canvas surface
    topCanvasSize,              \* size of the overlay canvas surface
    paneCellSize,               \* style.width / style.height of _paneCell
    startScrollingPos,          \* _startScrollingPos
    isScrolling,                \* _isScrolling
    prevPinchScale,             \* _prevPinchScale
    longTap,                    \* _longTap
    startTrackPoint,            \* _startTrackPoint
    exitTrackingModeOnNextTry,  \* _exitTrackingModeOnNextTry
    initCrosshairPosition,      \* _initCrosshairPosition
    scrollXAnimation,           \* _scrollXAnimation
    leftPriceAxisWidget,        \* _leftPriceAxisWidget
    rightPriceAxisWidget,       \* _rightPriceAxisWidget
    ticks,                      \* animation frames requested and not yet run
    crosshair,                  \* chart model: position of the crosshair
    hoveredSource,              \* chart model: hovered source
    zoomed,                     \* history: sum of the zooms of the time scale since the last pinch start
    sources,                    \* pane: orderedSources() with their pane views
    topViews,                   \* pane: the top pane views of each ordered source
    overlays,                   \* pane: isOverlay and priceScale() of each source
    leftAxisVisible,            \* pane: leftPriceScale().options().visible
    rightAxisVisible,           \* pane: rightPriceScale().options().visible
    noSerieses,                 \* chart model: serieses().length === 0
    areaData,                   \* PaneRendererArea._data
    priceScaleEmpty,            \* pane: defaultPriceScale().isEmpty()
    timeScaleEmpty,             \* chart model: timeScale().isEmpty()
    options,                    \* chart options: handleScroll, kineticScroll, handleScale
    isMobile,                   \* support-touch: isMobile
    mobileTouch,                \* support-touch: mobileTouch
    last,                       \* the operation handled last and its input
    calls,                      \* the calls it made on its collaborators
    err,                        \* the error it threw, "" if none
    ret                         \* the value it returned (hitTest)

vars == <<state, size, canvasSize, topCanvasSize, paneCellSize, startScrollingPos,
          isScrolling, prevPinchScale, longTap, startTrackPoint,
          exitTrackingModeOnNextTry, initCrosshairPosition, scrollXAnimation,
          leftPriceAxisWidget, rightPriceAxisWidget, ticks,
          crosshair, hoveredSource, zoomed, sources, topViews, overlays, leftAxisVisible,
          rightAxisVisible, noSerieses, areaData, priceScaleEmpty, timeScaleEmpty,
          options, isMobile, mobileTouch, last, calls, err, ret>>

paneVars == <<sources, topViews, overlays, leftAxisVisible, rightAxisVisible, noSerieses>>
envVars == <<paneVars, areaData, priceScaleEmpty, timeScaleEmpty, options, isMobile,
             mobileTouch>>
sizeVars == <<size, canvasSize, topCanvasSize, paneCellSize>>
axisVars == <<leftPriceAxisWidget, rightPriceAxisWidget>>

\* ---------------------------------------------------------------- values
Null == <<>>
Some(v) == <<v>>
NoError == ""
NullError == "Value is null"
SizeError == "Try to set invalid size to PaneWidget"
TypeError == "Cannot read properties of undefined"

\* A JavaScript number that is not a number.
NaN == 0 - 1000000

Add(a, b) == IF a = NaN \/ b = NaN THEN NaN ELSE a + b
Sub(a, b) == IF a = NaN \/ b = NaN THEN NaN ELSE a - b
MathMin(a, b) == IF a = NaN \/ b = NaN THEN NaN ELSE IF a < b THEN a ELSE b
MathMax(a, b) == IF a = NaN \/ b = NaN THEN NaN ELSE IF a > b THEN a ELSE b

Point(x, y) == [x |-> x, y |-> y]
Size(w, h) == [w |-> w, h |-> h]

Coords == (0 - 1) .. MaxCoord
EventTypes == {"mouse", "touch"}
TouchMouseEvent(x, y, t) ==
    [localX |-> x, localY |-> y, clientX |-> x, clientY |-> y, type |-> t]

\* One call on a collaborator (chart model, kinetic animation, renderer, window).
CallRec(fn, a, b) == [fn |-> fn, a |-> a, b |-> b]
Call(s, fn, a, b) == [s EXCEPT !.calls = Append(@, CallRec(fn, a, b))]
Throw(s, msg) == [s EXCEPT !.err = msg]
Called(cs, fn) == \E i \in DOMAIN cs : cs[i].fn = fn
CountCalled(cs, fn) == Cardinality({i \in DOMAIN cs : cs[i].fn = fn})

\* ------------------------------------------------ kinetic animation engine
\* remaining: time left until finished(now) becomes true; 0 before start() and
\* when start() found the speed below the minimum.
KineticAnimation == [remaining |-> 0, terminated |-> FALSE]
animFinished(a) == a.remaining = 0
animTerminated(a) == a.terminated
animStart(a, d) == [a EXCEPT !.remaining = d]
animTerminate(a) == [a EXCEPT !.terminated = TRUE]
animElapse(a) == [a EXCEPT !.remaining = IF @ > 0 THEN @ - 1 ELSE 0]

\* A requested frame holds the animation its callback captured: the one the
\* widget still refers to (cur) or an object the widget has let go of.
CurTick == [cur |-> TRUE, anim |-> KineticAnimation]
HeldTick(a) == [cur |-> FALSE, anim |-> a]
TickAnim(s, t) == IF t.cur THEN s.scrollXAnimation[1] ELSE t.anim

\* this._scrollXAnimation = null: frames that captured the object keep it.
ReleaseAnimation(s) ==
    IF s.scrollXAnimation = Null THEN s
    ELSE [s EXCEPT !.scrollXAnimation = Null,
                   !.ticks = [i \in DOMAIN s.ticks |->
                                 IF s.ticks[i].cur
                                 THEN HeldTick(s.scrollXAnimation[1])
                                 ELSE s.ticks[i]]]

requestAnimationFrame(s, t) ==
    [Call(s, "requestAnimationFrame", 0, 0) EXCEPT !.ticks = Append(@, t)]

\* ------------------------------------------------------------- chart model
appliedX(s) == IF s.crosshair = Null THEN NaN ELSE s.crosshair[1].x
appliedY(s) == IF s.crosshair = Null THEN NaN ELSE s.crosshair[1].y

setAndSaveCurrentPosition(s, x, y) ==
    [Call(s, "setAndSaveCurrentPosition", x, y) EXCEPT !.crosshair = Some(Point(x, y))]

clearCurrentPosition(s) ==
    [Call(s, "clearCurrentPosition", 0, 0) EXCEPT !.crosshair = Null]

setHoveredSource(s, h) ==
    [Call(s, "setHoveredSource", 0, 0) EXCEPT !.hoveredSource = h]

\* zoomed is null until a pinch starts, then the sum of the zooms applied.
zoomTime(s, x, zoomScale) ==
    [Call(s, "zoomTime", x, zoomScale) EXCEPT
        !.zoomed = IF @ = Null THEN Null ELSE Some(@[1] + zoomScale)]

\* ------------------------------------------------------------ pane widget
Cur ==
    [state |-> state, startScrollingPos |-> startScrollingPos,
     isScrolling |-> isScrolling, prevPinchScale |-> prevPinchScale,
     longTap |-> longTap, startTrackPoint |-> startTrackPoint,
     exitTrackingModeOnNextTry |-> exitTrackingModeOnNextTry,
     initCrosshairPosition |-> initCrosshairPosition,
     scrollXAnimation |-> scrollXAnimation, ticks |-> ticks,
     leftPriceAxisWidget |-> leftPriceAxisWidget,
     rightPriceAxisWidget |-> rightPriceAxisWidget,
     crosshair |-> crosshair, hoveredSource |-> hoveredSource, zoomed |-> zoomed,
     calls |-> <<>>, err |-> NoError]

trackCrosshairOnlyAfterLongTap == isMobile

preventCrosshairMove(s) ==
    trackCrosshairOnlyAfterLongTap /\ s.startTrackPoint = Null

preventScroll(s) ==
    (trackCrosshairOnlyAfterLongTap /\ s.longTap) \/ s.startTrackPoint # Null

correctXCoord(x) == MathMax(0, MathMin(x, size.w - 1))

correctYCoord(y) == MathMax(0, MathMin(y, size.h - 1))

\* The arguments are evaluated first: ensureNotNull(this._state) throws before
\* the model is called.
setCrosshairPosition(s, x, y) ==
    IF s.err # NoError THEN s
    ELSE IF s.state = "null" THEN Throw(s, NullError)
    ELSE setAndSaveCurrentPosition(s, correctXCoord(x), correctYCoord(y))

clearCrosshairPosition(s) ==
    IF s.err # NoError THEN s ELSE clearCurrentPosition(s)

\* Mutant of tryExitTrackingMode: tracking mode is left whether or not the
\* exit is pending.
tryExitTrackingModeAlways(s) ==
    IF s.err # NoError THEN s
    ELSE clearCrosshairPosition([s EXCEPT !.startTrackPoint = Null])

tryExitTrackingMode(s) ==
    IF s.err # NoError THEN s
    ELSE IF s.exitTrackingModeOnNextTry
         THEN clearCrosshairPosition([s EXCEPT !.startTrackPoint = Null])
         ELSE s

startTrackingMode(s, startPoint, crossHairPosition) ==
    LET s1 == [s EXCEPT !.startTrackPoint = Some(startPoint),
                        !.exitTrackingModeOnNextTry = FALSE]
        s2 == setCrosshairPosition(s1, crossHairPosition.x, crossHairPosition.y)
    IN  IF s2.err # NoError THEN s2
        ELSE [s2 EXCEPT !.initCrosshairPosition = Some(Point(appliedX(s2), appliedY(s2)))]

\* this.state() is ensureNotNull(this._state) and runs before any end-scroll call.
finishScroll(s) ==
    IF s.err # NoError THEN s
    ELSE IF s.state = "null" THEN Throw(s, NullError)
    ELSE LET s1 == Call(Call(s, "endScrollPrice", 0, 0), "endScrollTime", 0, 0)
         IN  [s1 EXCEPT !.startScrollingPos = Null, !.isScrolling = FALSE]

terminateKineticAnimation(s) ==
    IF s.err # NoError THEN s
    ELSE LET xAnimationFinished ==
                 s.scrollXAnimation = Null \/ animFinished(s.scrollXAnimation[1])
             s1 == IF s.scrollXAnimation # Null /\ ~xAnimationFinished
                   THEN finishScroll(s) ELSE s
         IN  IF s1.err # NoError THEN s1
             ELSE IF s1.scrollXAnimation # Null
                  THEN ReleaseAnimation(
                           [Call(s1, "terminate", 0, 0) EXCEPT
                               !.scrollXAnimation = Some(animTerminate(@[1]))])
                  ELSE s1

\* ---------------------------------------------------------------- hit test
\* A pane view: renderer is FALSE when renderer(height, width) returns null,
\* hitTest is FALSE when the renderer has no hitTest, claims is the set of x
\* at which renderer.hitTest(x, y) returns an object, data is that object.
HitTestPaneViewResult(i, v) == [view |-> i, object |-> v.data]

RECURSIVE hitTestPaneViewFrom(_, _, _, _, _)
hitTestPaneViewFrom(paneViews, k, i, x, y) ==
    IF i > Len(paneViews) THEN [res |-> Null, log |-> <<>>]
    ELSE LET v == paneViews[i]
             asked == <<CallRec("renderer", k, i)>>
             tested == <<CallRec("renderer.hitTest", k, i)>>
             rest == hitTestPaneViewFrom(paneViews, k, i + 1, x, y)
         IN  IF v.renderer /\ v.hitTest
             THEN IF x \in v.claims
                  THEN [res |-> Some(HitTestPaneViewResult(i, v)),
                        log |-> asked \o tested]
                  ELSE [res |-> rest.res, log |-> asked \o tested \o rest.log]
             ELSE [res |-> rest.res, log |-> asked \o rest.log]

\* k is the position of the source in orderedSources(); it only labels the log.
hitTestPaneView(paneViews, k, x, y) == hitTestPaneViewFrom(paneViews, k, 1, x, y)

RECURSIVE hitTestFrom(_, _, _)
hitTestFrom(k, x, y) ==
    IF k > Len(sources) THEN [res |-> Null, log |-> <<>>]
    ELSE LET sourceResult == hitTestPaneView(sources[k], k, x, y)
             rest == hitTestFrom(k + 1, x, y)
         IN  IF sourceResult.res # Null
             THEN [res |-> Some([source |-> k,
                                 view |-> sourceResult.res[1].view,
                                 object |-> sourceResult.res[1].object]),
                   log |-> sourceResult.log]
             ELSE [res |-> rest.res, log |-> sourceResult.log \o rest.log]

\* Mutant of hitTest: every source is asked and the last one that claims the
\* point wins.
RECURSIVE hitTestLastFrom(_, _, _)
hitTestLastFrom(k, x, y) ==
    IF k > Len(sources) THEN [res |-> Null, log |-> <<>>]
    ELSE LET sourceResult == hitTestPaneView(sources[k], k, x, y)
             rest == hitTestLastFrom(k + 1, x, y)
         IN  IF rest.res # Null \/ sourceResult.res = Null
             THEN [res |-> rest.res, log |-> sourceResult.log \o rest.log]
             ELSE [res |-> Some([source |-> k,
                                 view |-> sourceResult.res[1].view,
                                 object |-> sourceResult.res[1].object]),
                   log |-> sourceResult.log \o rest.log]

hitTestLastWins(s, x, y) ==
    IF s.state = "null" THEN [res |-> Null, log |-> <<>>]
    ELSE hitTestLastFrom(1, x, y)

hitTest(s, x, y) ==
    IF s.state = "null" THEN [res |-> Null, log |-> <<>>]
    ELSE hitTestFrom(1, x, y)

\* ----------------------------------------------------------- input handlers
mouseEnterEvent(s, e) ==
    IF s.state = "null" THEN s
    ELSE IF ~mobileTouch THEN setCrosshairPosition(s, e.localX, e.localY)
    ELSE s

\* Mutant of mouseDownEvent: the crosshair is set whatever mobileTouch is.
mouseDownEventSetsCrosshair(s, e) ==
    LET s1 == [s EXCEPT !.longTap = FALSE,
                        !.exitTrackingModeOnNextTry = (s.startTrackPoint # Null)]
    IN  IF s1.state = "null" THEN s1
        ELSE LET s2 == terminateKineticAnimation(s1)
             IN  IF s2.err # NoError THEN s2
                 ELSE IF priceScaleEmpty \/ timeScaleEmpty THEN s2
                 ELSE LET s3 == IF s2.startTrackPoint # Null
                                THEN [s2 EXCEPT
                                        !.initCrosshairPosition =
                                            Some(Point(appliedX(s2), appliedY(s2))),
                                        !.startTrackPoint =
                                            Some(Point(e.localX, e.localY))]
                                ELSE s2
                      IN  setCrosshairPosition(s3, e.localX, e.localY)

mouseDownEvent(s, e) ==
    LET s1 == [s EXCEPT !.longTap = FALSE,
                        !.exitTrackingModeOnNextTry = (s.startTrackPoint # Null)]
    IN  IF s1.state = "null" THEN s1
        ELSE LET s2 == terminateKineticAnimation(s1)
             IN  IF s2.err # NoError THEN s2
                 ELSE IF priceScaleEmpty \/ timeScaleEmpty THEN s2
                 ELSE LET s3 == IF s2.startTrackPoint # Null
                                THEN [s2 EXCEPT
                                        !.initCrosshairPosition =
                                            Some(Point(appliedX(s2), appliedY(s2))),
                                        !.startTrackPoint =
                                            Some(Point(e.localX, e.localY))]
                                ELSE s2
                      IN  IF ~mobileTouch
                          THEN setCrosshairPosition(s3, e.localX, e.localY)
                          ELSE s3

mouseMoveEvent(s, e) ==
    IF s.state = "null" THEN s
    ELSE LET s1 == IF preventCrosshairMove(s) THEN clearCrosshairPosition(s) ELSE s
         IN  IF ~mobileTouch
             THEN LET s2 == setCrosshairPosition(s1, e.localX, e.localY)
                      h == hitTest(s2, e.localX, e.localY)
                      s3 == [s2 EXCEPT !.calls = @ \o h.log]
                      hovered == IF h.res = Null THEN Null
                                 ELSE Some([source |-> h.res[1].source,
                                            object |-> h.res[1].object])
                  IN  IF s2.err # NoError THEN s2 ELSE setHoveredSource(s3, hovered)
             ELSE s1

mouseClickEvent(s, e) ==
    IF s.state = "null" THEN s
    ELSE LET h == hitTest(s, e.localX, e.localY)
         IN  tryExitTrackingMode([s EXCEPT !.calls = @ \o h.log])

\* Mutant of trackCrosshair: in tracking mode the crosshair follows the
\* pointer's absolute position.
trackCrosshairAbsolute(s, e) ==
    IF s.startTrackPoint # Null
    THEN LET s0 == [s EXCEPT !.exitTrackingModeOnNextTry = FALSE]
         IN  IF s0.initCrosshairPosition = Null THEN Throw(s0, NullError)
             ELSE setCrosshairPosition(s0, e.localX, e.localY)
    ELSE IF ~preventCrosshairMove(s)
         THEN setCrosshairPosition(s, e.localX, e.localY)
         ELSE s

\* The tracking branch of pressedMouseMoveEvent.
trackCrosshair(s, e) ==
    IF s.startTrackPoint # Null
    THEN LET s0 == [s EXCEPT !.exitTrackingModeOnNextTry = FALSE]
         IN  IF s0.initCrosshairPosition = Null THEN Throw(s0, NullError)
             ELSE LET origPoint == s0.initCrosshairPosition[1]
                      newX == Add(origPoint.x, Sub(e.localX, s0.startTrackPoint[1].x))
                      newY == Add(origPoint.y, Sub(e.localY, s0.startTrackPoint[1].y))
                  IN  setCrosshairPosition(s0, newX, newY)
    ELSE IF ~preventCrosshairMove(s)
         THEN setCrosshairPosition(s, e.localX, e.localY)
         ELSE s

\* Mutant of dragDisabled: the input type is not looked at.
dragDisabledIgnoringType(e) ==
    /\ ~options.pressedMouseMove
    /\ ~options.horzTouchDrag /\ ~options.vertTouchDrag

\* The test of pressedMouseMoveEvent that leaves before any scrolling.
dragDisabled(e) ==
    /\ (~options.pressedMouseMove \/ e.type = "touch")
    /\ ((~options.horzTouchDrag /\ ~options.vertTouchDrag) \/ e.type = "mouse")

kineticEnabled(e) ==
    \/ (e.type = "touch" /\ options.kineticTouch)
    \/ (e.type = "mouse" /\ options.kineticMouse)

\* The scrolling part of pressedMouseMoveEvent.
dragScroll(s, e) ==
    LET s2 == IF s.startScrollingPos = Null /\ ~preventScroll(s)
              THEN [s EXCEPT !.startScrollingPos =
                        Some([x |-> e.clientX, y |-> e.clientY,
                              localX |-> e.localX, localY |-> e.localY])]
              ELSE s
        s3 == IF s2.scrollXAnimation # Null
              THEN Call(s2, "addPosition", e.localX, 0) ELSE s2
        begin == /\ s3.startScrollingPos # Null
                 /\ ~s3.isScrolling
                 /\ (s3.startScrollingPos[1].x # e.clientX
                     \/ s3.startScrollingPos[1].y # e.clientY)
        s4 == IF s3.scrollXAnimation = Null /\ kineticEnabled(e)
              THEN Call(Call(Call([s3 EXCEPT !.scrollXAnimation = Some(KineticAnimation)],
                                  "new KineticAnimation", 0, 0),
                             "addPosition", s3.startScrollingPos[1].localX, 0),
                        "addPosition", e.localX, 0)
              ELSE s3
        s5 == IF ~priceScaleEmpty THEN Call(s4, "startScrollPrice", e.localY, 0) ELSE s4
        s6 == IF begin
              THEN [Call(s5, "startScrollTime", e.localX, 0) EXCEPT !.isScrolling = TRUE]
              ELSE s3
        s7 == IF ~priceScaleEmpty THEN Call(s6, "scrollPriceTo", e.localY, 0) ELSE s6
    IN  IF s6.isScrolling THEN Call(s7, "scrollTimeTo", e.localX, 0) ELSE s6

pressedMouseMoveEvent(s, e) ==
    IF s.state = "null" THEN s
    ELSE LET s1 == trackCrosshair(s, e)
         IN  IF s1.err # NoError THEN s1
             ELSE IF timeScaleEmpty THEN s1
             ELSE IF dragDisabled(e) THEN s1
             ELSE dragScroll(s1, e)

\* Mutant of endScroll: the session is finished at once, whatever the
\* animation reports.
endScrollWithoutAnimation(s, e, d) ==
    IF ~s.isScrolling THEN s
    ELSE LET s1 == IF s.scrollXAnimation # Null
                   THEN [Call(s, "start", e.localX, 0) EXCEPT
                            !.scrollXAnimation = Some(animStart(@[1], d))]
                   ELSE s
         IN  finishScroll(s1)

\* d is the time the animation armed by start() takes to finish (0: the speed
\* is below the minimum and the animation is finished at once).
endScroll(s, e, d) ==
    IF ~s.isScrolling THEN s
    ELSE LET s1 == IF s.scrollXAnimation # Null
                   THEN [Call(s, "start", e.localX, 0) EXCEPT
                            !.scrollXAnimation = Some(animStart(@[1], d))]
                   ELSE s
         IN  IF s1.scrollXAnimation = Null \/ animFinished(s1.scrollXAnimation[1])
             THEN finishScroll(s1)
             ELSE requestAnimationFrame(s1, CurTick)

mouseUpEvent(s, e, d) ==
    IF s.state = "null" THEN s
    ELSE endScroll([s EXCEPT !.longTap = FALSE], e, d)

longTapEvent(s, e) ==
    LET s1 == [s EXCEPT !.longTap = TRUE]
        point == Point(e.localX, e.localY)
    IN  IF s1.startTrackPoint = Null /\ trackCrosshairOnlyAfterLongTap
        THEN startTrackingMode(s1, point, point)
        ELSE s1

mouseLeaveEvent(s, e) ==
    IF s.state = "null" THEN s
    ELSE LET s1 == setHoveredSource(s, Null)
         IN  IF ~isMobile THEN clearCrosshairPosition(s1) ELSE s1

pinchStartEvent(s) ==
    terminateKineticAnimation([s EXCEPT !.prevPinchScale = 1])

\* Mutant of pinchEvent: the reference scale is not moved to the new scale.
pinchEventKeepsReference(s, x, scale) ==
    IF ~options.pinch THEN s
    ELSE zoomTime(s, x, (scale - s.prevPinchScale) * 5)

pinchEvent(s, x, scale) ==
    IF ~options.pinch THEN s
    ELSE LET zoomScale == (scale - s.prevPinchScale) * 5
         IN  zoomTime([s EXCEPT !.prevPinchScale = scale], x, zoomScale)

\* Mutant of animationFn: the callback does not leave at once when its
\* animation is terminated.
animationFnNoEarlyReturn(s, t, moved) ==
    LET scrollXAnim == TickAnim(s, t)
        finishedNow == animFinished(scrollXAnim)
        s1 == Call(Call(s, "getPosition", 0, 0), "scrollTimeTo", 0, 0)
        s2 == IF animTerminated(scrollXAnim) THEN s
              ELSE IF ~moved THEN ReleaseAnimation(s1) ELSE s1
        xAnimationFinished == finishedNow \/ (~animTerminated(scrollXAnim) /\ ~moved)
        again == IF t.cur /\ s2.scrollXAnimation # Null
                 THEN CurTick ELSE HeldTick(scrollXAnim)
    IN  IF xAnimationFinished THEN finishScroll(s2)
        ELSE requestAnimationFrame(s2, again)

\* The callback of a requested frame.  t is the frame, moved tells whether
\* scrollTimeTo changed the right offset of the time scale.
animationFn(s, t, moved) ==
    LET scrollXAnim == TickAnim(s, t)
    IN  IF animTerminated(scrollXAnim) THEN s
        ELSE LET finishedNow == animFinished(scrollXAnim)
                 s1 == Call(Call(s, "getPosition", 0, 0), "scrollTimeTo", 0, 0)
                 s2 == IF animTerminated(scrollXAnim) THEN s
                       ELSE IF ~moved THEN ReleaseAnimation(s1) ELSE s1
                 xAnimationFinished ==
                     finishedNow \/ (~animTerminated(scrollXAnim) /\ ~moved)
                 again == IF t.cur /\ s2.scrollXAnimation # Null
                          THEN CurTick ELSE HeldTick(scrollXAnim)
             IN  IF xAnimationFinished THEN finishScroll(s2)
                 ELSE requestAnimationFrame(s2, again)

onStateDestroyed(s) == [s EXCEPT !.state = "null"]

\* ------------------------------------------------------ price axis widgets
PriceAxisWidget(side) == Some(side)

\* The widget of one side: destroyed when its scale is not visible, created
\* when the scale is visible and there is no widget.  n is 0 for the left
\* side and 1 for the right side in the log.
recreateLeft(s) ==
    IF ~leftAxisVisible /\ s.leftPriceAxisWidget # Null
    THEN [Call(s, "PriceAxisWidget.destroy", 0, 0) EXCEPT !.leftPriceAxisWidget = Null]
    ELSE s

recreateRight(s) ==
    IF ~rightAxisVisible /\ s.rightPriceAxisWidget # Null
    THEN [Call(s, "PriceAxisWidget.destroy", 1, 0) EXCEPT !.rightPriceAxisWidget = Null]
    ELSE s

\* Mutant of recreatePriceAxisWidgets: an existing widget is destroyed and a
\* visible one created anew on every call.
recreatePriceAxisWidgetsAnew(s) ==
    IF s.state = "null" THEN s
    ELSE LET s1 == IF s.leftPriceAxisWidget # Null
                   THEN [Call(s, "PriceAxisWidget.destroy", 0, 0) EXCEPT
                            !.leftPriceAxisWidget = Null]
                   ELSE s
             s2 == IF s1.rightPriceAxisWidget # Null
                   THEN [Call(s1, "PriceAxisWidget.destroy", 1, 0) EXCEPT
                            !.rightPriceAxisWidget = Null]
                   ELSE s1
             s3 == IF leftAxisVisible
                   THEN [Call(s2, "new PriceAxisWidget", 0, 0) EXCEPT
                            !.leftPriceAxisWidget = PriceAxisWidget("left")]
                   ELSE s2
         IN  IF rightAxisVisible
             THEN [Call(s3, "new PriceAxisWidget", 1, 0) EXCEPT
                      !.rightPriceAxisWidget = PriceAxisWidget("right")]
             ELSE s3

recreatePriceAxisWidgets(s) ==
    IF s.state = "null" THEN s
    ELSE LET s1 == recreateRight(recreateLeft(s))
             s2 == IF leftAxisVisible /\ s1.leftPriceAxisWidget = Null
                   THEN [Call(s1, "new PriceAxisWidget", 0, 0) EXCEPT
                            !.leftPriceAxisWidget = PriceAxisWidget("left")]
                   ELSE s1
         IN  IF rightAxisVisible /\ s2.rightPriceAxisWidget = Null
             THEN [Call(s2, "new PriceAxisWidget", 1, 0) EXCEPT
                      !.rightPriceAxisWidget = PriceAxisWidget("right")]
             ELSE s2

updatePriceAxisWidgets(s) ==
    IF s.state = "null" THEN s
    ELSE LET s1 == recreatePriceAxisWidgets(s)
             s2 == IF s1.leftPriceAxisWidget # Null
                   THEN Call(s1, "setPriceScale", 0, 0) ELSE s1
         IN  IF noSerieses THEN s1
             ELSE IF s2.rightPriceAxisWidget # Null
                  THEN Call(s2, "setPriceScale", 1, 0) ELSE s2

setState(s, pane) == updatePriceAxisWidgets([s EXCEPT !.state = pane])

\* ------------------------------------------------------------------- paint
InvalidationLevelNone == 0
InvalidationLevelCursor == 1
InvalidationLevelLight == 2
InvalidationLevelFull == 3
InvalidationLevels == InvalidationLevelNone .. InvalidationLevelFull

\* The data sources of the pane are taken in the order of orderedSources().
\* overlays[k] is "no" when source k is not an overlay, "scale" when it is an
\* overlay with a price scale and "noScale" when its priceScale() is null.
RECURSIVE recalculateOverlaysFrom(_, _)
recalculateOverlaysFrom(s, k) ==
    IF k > Len(overlays) THEN s
    ELSE LET s1 == IF overlays[k] = "scale"
                   THEN Call(s, "recalculatePriceScale", k, 0) ELSE s
             s2 == IF overlays[k] # "no" THEN Call(s1, "updateAllViews", k, 0) ELSE s
         IN  recalculateOverlaysFrom(s2, k + 1)

recalculatePriceScales(s) ==
    IF s.err # NoError THEN s
    ELSE IF s.state = "null" THEN Throw(s, NullError)
    ELSE recalculateOverlaysFrom(
             Call(Call(s, "recalculatePriceScale.left", 0, 0),
                  "recalculatePriceScale.right", 0, 0), 1)

\* A JavaScript undefined where a number may stand.
Undefined == 0 - 2000000

\* The hovered source of the chart model is null or a record of source (the
\* position of the source in orderedSources(), 0 for a source that is not in
\* this pane) and object (undefined, or an object with its hitTestData).
isHovered(s, k) == s.hoveredSource # Null /\ s.hoveredSource[1].source = k

\* Mutant of objecId: the payload of the hovered object is passed to the
\* views of every source.
objecIdOfAnySource(s, k) ==
    IF s.hoveredSource # Null /\ s.hoveredSource[1].object # Null
    THEN s.hoveredSource[1].object[1].hitTestData
    ELSE Undefined

objecId(s, k) ==
    IF s.hoveredSource # Null /\ isHovered(s, k) /\ s.hoveredSource[1].object # Null
    THEN s.hoveredSource[1].object[1].hitTestData
    ELSE Undefined

\* drawFn(renderer, ctx, pixelRatio, isHovered, objecId): the call on the
\* renderer is logged, followed by the last two arguments it received.
drawFn(s, fn, k, i) ==
    Call(Call(s, fn, k, i),
         fn \o ".args", IF isHovered(s, k) THEN 1 ELSE 0, objecId(s, k))

\* drawFn over the pane views of source k from view i on.  surface is "" for
\* the content canvas and "top." for the overlay canvas; background tells
\* which of drawBackground and drawForeground is the draw function.
RECURSIVE drawViewsFrom(_, _, _, _, _, _)
drawViewsFrom(s, surface, background, k, paneViews, i) ==
    IF i > Len(paneViews) THEN s
    ELSE LET v == paneViews[i]
             s1 == IF ~v.renderer THEN s
                   ELSE IF ~background THEN drawFn(s, surface \o "draw", k, i)
                   ELSE IF v.drawBackground
                        THEN drawFn(s, surface \o "drawBackground", k, i)
                        ELSE s
         IN  drawViewsFrom(s1, surface, background, k, paneViews, i + 1)

drawSourceImpl(s, surface, background, k, paneViews) ==
    IF s.err # NoError THEN s
    ELSE IF s.state = "null" THEN Throw(s, NullError)
    ELSE drawViewsFrom(s, surface, background, k, paneViews, 1)

RECURSIVE drawSourcesPassFrom(_, _, _, _, _)
drawSourcesPassFrom(s, surface, background, allViews, k) ==
    IF k > Len(allViews) THEN s
    ELSE drawSourcesPassFrom(drawSourceImpl(s, surface, background, k, allViews[k]),
                             surface, background, allViews, k + 1)

\* Mutant of drawSources: each source is drawn whole, background and then
\* foreground, before the next source.
RECURSIVE drawSourcesOneByOneFrom(_, _, _, _)
drawSourcesOneByOneFrom(s, surface, allViews, k) ==
    IF k > Len(allViews) THEN s
    ELSE drawSourcesOneByOneFrom(
             drawSourceImpl(drawSourceImpl(s, surface, TRUE, k, allViews[k]),
                            surface, FALSE, k, allViews[k]),
             surface, allViews, k + 1)

drawSourcesOneByOne(s, surface, allViews) ==
    IF s.err # NoError THEN s
    ELSE IF s.state = "null" THEN Throw(s, NullError)
    ELSE drawSourcesOneByOneFrom(s, surface, allViews, 1)

\* allViews is sourcePaneViews or sourceTopPaneViews of every ordered source.
drawSources(s, surface, allViews) ==
    IF s.err # NoError THEN s
    ELSE IF s.state = "null" THEN Throw(s, NullError)
    ELSE drawSourcesPassFrom(drawSourcesPassFrom(s, surface, TRUE, allViews, 1),
                             surface, FALSE, allViews, 1)

\* clearRect or clearRectWithGradient over the stored size.
drawBackground(s) == Call(s, "background", size.w, size.h)

\* The grid's pane view has a renderer.
drawGrid(s) ==
    IF s.err # NoError THEN s
    ELSE IF s.state = "null" THEN Throw(s, NullError)
    ELSE Call(s, "grid.draw", 0, 0)

\* The watermark source has one pane view, whose renderer draws both ways.
drawWatermark(s) ==
    Call(Call(s, "watermark.drawBackground", 0, 0), "watermark.draw", 0, 0)

\* The crosshair source has one pane view with a renderer.
drawCrosshair(s) == Call(s, "crosshair.draw", 0, 0)

paintAxes(s, type) ==
    LET s1 == IF s.leftPriceAxisWidget # Null
              THEN Call(s, "PriceAxisWidget.paint", 0, type) ELSE s
    IN  IF s1.rightPriceAxisWidget # Null
        THEN Call(s1, "PriceAxisWidget.paint", 1, type) ELSE s1

paintContent(s) ==
    LET s1 == drawBackground(s)
    IN  IF s1.state # "null" THEN drawSources(drawWatermark(drawGrid(s1)), "", sources)
        ELSE s1

paintTop(s) ==
    drawCrosshair(drawSources(Call(s, "top.clearRect", size.w, size.h), "top.", topViews))

\* Mutant of paint: a cursor-only paint is carried out as a full paint.
paintCursorAsFull(s, type) ==
    IF type = InvalidationLevelNone THEN s
    ELSE IF s.state = "null" THEN s
    ELSE paintTop(paintContent(paintAxes(recalculatePriceScales(s), type)))

paint(s, type) ==
    IF type = InvalidationLevelNone THEN s
    ELSE IF s.state = "null" THEN s
    ELSE LET s1 == IF type > InvalidationLevelCursor
                   THEN recalculatePriceScales(s) ELSE s
             s2 == paintAxes(s1, type)
             s3 == IF type # InvalidationLevelCursor THEN paintContent(s2) ELSE s2
         IN  paintTop(s3)

\* ----------------------------------------------------------- area renderer
\* _data is null or a record of items (a sequence of points, items[i] of the
\* source being the element i + 1 of the sequence), visibleRange (null or a
\* record of from and to) and barWidth.  The context's calls are logged with
\* their coordinates; "items[]" logs the index of an item that is read.
LineItem(x, y) == [x |-> x, y |-> y]

ReadItem(s, items, i) ==
    IF s.err # NoError THEN s
    ELSE IF i + 1 \in DOMAIN items THEN Call(s, "items[]", i, 0)
    ELSE Throw(Call(s, "items[]", i, 0), TypeError)

\* ctx.moveTo or ctx.lineTo with items[i].x and items[j].y.
PathTo(s, fn, items, i, j) ==
    LET s1 == ReadItem(ReadItem(s, items, i), items, j)
    IN  IF s1.err # NoError THEN s1
        ELSE Call(s1, fn, items[i + 1].x, items[j + 1].y)

\* The line-walking routine: a line through the items from index from to
\* index to - 1, in ascending order.
RECURSIVE walkLine(_, _, _, _)
walkLine(s, items, to, from) ==
    IF s.err # NoError \/ from >= to THEN s
    ELSE IF from + 1 \notin DOMAIN items THEN Throw(s, TypeError)
    ELSE walkLine(Call(s, "walkLine.lineTo", items[from + 1].x, items[from + 1].y),
                  items, to, from + 1)

\* Mutant of drawSinglePoint: the slab extends by a whole bar width on
\* either side of the point.
drawSinglePointTwiceAsWide(s, d) ==
    LET s1 == ReadItem(s, d.items, 0)
        point == d.items[1]
    IN  Call(Call(Call(Call(s1,
            "moveTo", point.x - d.barWidth, point.y),
            "lineTo", point.x - d.barWidth, point.y),
            "lineTo", point.x + d.barWidth, point.y),
            "lineTo", point.x + d.barWidth, point.y)

\* The branch of _drawImpl for one item.  The bar widths of the model are
\* even, so that barWidth / 2 is a whole number.
drawSinglePoint(s, d) ==
    LET s1 == ReadItem(s, d.items, 0)
        point == d.items[1]
        halfBarWidth == d.barWidth \div 2
    IN  Call(Call(Call(Call(s1,
            "moveTo", point.x - halfBarWidth, point.y),
            "lineTo", point.x - halfBarWidth, point.y),
            "lineTo", point.x + halfBarWidth, point.y),
            "lineTo", point.x + halfBarWidth, point.y)

\* The branch of _drawImpl for two items or more.
drawPath(s, d, from) ==
    LET to == d.visibleRange[1].to
        s1 == PathTo(s, "moveTo", d.items, from, 0)
        s2 == PathTo(s1, "lineTo", d.items, from, from)
        s3 == walkLine(s2, d.items, to, from)
        s4 == PathTo(s3, "lineTo", d.items, to - 1, 0)
        s5 == PathTo(s4, "lineTo", d.items, from, 0)
    IN  IF to > from THEN s5 ELSE s3

\* Mutant of drawImpl: the walk starts at the start of the visible range,
\* index 0 included.
drawImplFromRangeStart(s, d) ==
    IF d = Null THEN s
    ELSE IF Len(d[1].items) = 0 \/ d[1].visibleRange = Null THEN s
    ELSE LET from == d[1].visibleRange[1].from
             s1 == Call(s, "beginPath", 0, 0)
             s2 == IF Len(d[1].items) = 1 THEN drawSinglePoint(s1, d[1])
                   ELSE drawPath(s1, d[1], from)
         IN  IF s2.err # NoError THEN s2
             ELSE Call(ReadItem(Call(s2, "closePath", 0, 0), d[1].items, 0),
                       "fill", 0, 0)

drawImpl(s, d) ==
    IF d = Null THEN s
    ELSE IF Len(d[1].items) = 0 \/ d[1].visibleRange = Null THEN s
    ELSE LET from0 == d[1].visibleRange[1].from
             from == IF from0 = 0 THEN from0 + 1 ELSE from0
             s1 == Call(s, "beginPath", 0, 0)
             s2 == IF Len(d[1].items) = 1 THEN drawSinglePoint(s1, d[1])
                   ELSE drawPath(s1, d[1], from)
         IN  IF s2.err # NoError THEN s2
             ELSE Call(ReadItem(Call(s2, "closePath", 0, 0), d[1].items, 0),
                       "fill", 0, 0)

\* ------------------------------------------------------------------ resize
\* Mutant of setSize: only the width is validated.
setSizeWidthOnly(z, sz) ==
    IF sz.w < 0 THEN [z EXCEPT !.err = SizeError]
    ELSE IF z.size = sz THEN z
    ELSE [z EXCEPT !.size = sz, !.canvasSize = sz, !.topCanvasSize = sz,
                   !.paneCellSize = Some(sz)]

setSize(z, sz) ==
    IF sz.w < 0 \/ sz.h < 0 THEN [z EXCEPT !.err = SizeError]
    ELSE IF z.size = sz THEN z
    ELSE [z EXCEPT !.size = sz, !.canvasSize = sz, !.topCanvasSize = sz,
                   !.paneCellSize = Some(sz)]

\* ----------------------------------------------------------------- actions
Last(op, x, y, type, n) == [op |-> op, x |-> x, y |-> y, type |-> type, n |-> n]

Commit(r, l) ==
    /\ Len(r.ticks) <= MaxTicks
    /\ state' = r.state
    /\ startScrollingPos' = r.startScrollingPos
    /\ isScrolling' = r.isScrolling
    /\ prevPinchScale' = r.prevPinchScale
    /\ longTap' = r.longTap
    /\ startTrackPoint' = r.startTrackPoint
    /\ exitTrackingModeOnNextTry' = r.exitTrackingModeOnNextTry
    /\ initCrosshairPosition' = r.initCrosshairPosition
    /\ scrollXAnimation' = r.scrollXAnimation
    /\ leftPriceAxisWidget' = r.leftPriceAxisWidget
    /\ rightPriceAxisWidget' = r.rightPriceAxisWidget
    /\ ticks' = r.ticks
    /\ crosshair' = r.crosshair
    /\ hoveredSource' = r.hoveredSource
    /\ zoomed' = r.zoomed
    /\ calls' = r.calls
    /\ err' = r.err
    /\ last' = l

MouseEnter(E) ==
    \E e \in E :
        /\ Commit(mouseEnterEvent(Cur, e), Last("enter", e.localX, e.localY, "", 0))
        /\ UNCHANGED <<sizeVars, envVars, ret>>

MouseDown(E) ==
    \E e \in E :
        /\ Commit(mouseDownEvent(Cur, e), Last("down", e.localX, e.localY, "", 0))
        /\ UNCHANGED <<sizeVars, envVars, ret>>

MouseMove(E) ==
    \E e \in E :
        /\ Commit(mouseMoveEvent(Cur, e), Last("move", e.localX, e.localY, "", 0))
        /\ UNCHANGED <<sizeVars, envVars, ret>>

MouseClick(E) ==
    \E e \in E :
        /\ Commit(mouseClickEvent(Cur, e), Last("click", 0, 0, "", 0))
        /\ UNCHANGED <<sizeVars, envVars, ret>>

PressedMouseMove(E) ==
    \E e \in E :
        /\ Commit(pressedMouseMoveEvent(Cur, e),
                  Last("pressedMove", e.localX, e.localY, e.type, 0))
        /\ UNCHANGED <<sizeVars, envVars, ret>>

MouseUp(E) ==
    \E e \in E, d \in 0 .. MaxDuration :
        /\ Commit(mouseUpEvent(Cur, e, d), Last("up", 0, 0, "", 0))
        /\ UNCHANGED <<sizeVars, envVars, ret>>

LongTap(E) ==
    \E e \in E :
        /\ Commit(longTapEvent(Cur, e), Last("longTap", 0, 0, "", 0))
        /\ UNCHANGED <<sizeVars, envVars, ret>>

MouseLeave(E) ==
    \E e \in E :
        /\ Commit(mouseLeaveEvent(Cur, e), Last("leave", 0, 0, "", 0))
        /\ UNCHANGED <<sizeVars, envVars, ret>>

\* zoomed counts from the pinch start on.
PinchStart ==
    /\ Commit([pinchStartEvent(Cur) EXCEPT !.zoomed = Some(0)],
              Last("pinchStart", 0, 0, "", 0))
    /\ UNCHANGED <<sizeVars, envVars, ret>>

Pinch(X) ==
    \E x \in X, scale \in 0 .. MaxScale :
        /\ Commit(pinchEvent(Cur, x, scale), Last("pinch", x, 0, "", scale))
        /\ UNCHANGED <<sizeVars, envVars, ret>>

\* The browser runs the oldest requested frame.
AnimationFrame ==
    /\ ticks # <<>>
    /\ \E moved \in BOOLEAN :
           LET t == Head(ticks)
               popped == [Cur EXCEPT !.ticks = Tail(@)]
               captured == IF t.cur THEN "current" ELSE "released"
           IN  Commit(animationFn(popped, t, moved),
                      Last("tick", 0, 0, captured,
                           IF animTerminated(TickAnim(Cur, t)) THEN 1 ELSE 0))
    /\ UNCHANGED <<sizeVars, envVars, ret>>

\* performance.now() advances by one unit.  The time left of a terminated
\* animation is never read again and is left as it is.
TimePasses ==
    /\ \/ scrollXAnimation # Null /\ ~animFinished(scrollXAnimation[1])
       \/ \E i \in DOMAIN ticks : ~ticks[i].cur /\ ~animFinished(ticks[i].anim)
                                      /\ ~animTerminated(ticks[i].anim)
    /\ scrollXAnimation' = IF scrollXAnimation = Null THEN Null
                           ELSE Some(animElapse(scrollXAnimation[1]))
    /\ ticks' = [i \in DOMAIN ticks |->
                    IF ticks[i].cur \/ animTerminated(ticks[i].anim) THEN ticks[i]
                    ELSE HeldTick(animElapse(ticks[i].anim))]
    /\ last' = Last("time", 0, 0, "", 0)
    /\ calls' = <<>>
    /\ err' = NoError
    /\ UNCHANGED <<zoomed, state, startScrollingPos, isScrolling, prevPinchScale, longTap,
                   startTrackPoint, exitTrackingModeOnNextTry, initCrosshairPosition,
                   crosshair, hoveredSource, sizeVars, axisVars, envVars, ret>>

StateDestroyed ==
    /\ state # "null"
    /\ Commit(onStateDestroyed(Cur), Last("destroyed", 0, 0, "", 0))
    /\ UNCHANGED <<sizeVars, envVars, ret>>

SetState ==
    \E pane \in {"pane", "null"} :
        /\ Commit(setState(Cur, pane), Last("setState", 0, 0, pane, 0))
        /\ UNCHANGED <<sizeVars, envVars, ret>>

HitTest(E) ==
    \E e \in E :
        /\ ret' = hitTest(Cur, e.localX, e.localY).res
        /\ calls' = hitTest(Cur, e.localX, e.localY).log
        /\ err' = NoError
        /\ last' = Last("hitTest", e.localX, e.localY, "", 0)
        /\ UNCHANGED <<zoomed, state, startScrollingPos, isScrolling, prevPinchScale, longTap,
                       startTrackPoint, exitTrackingModeOnNextTry,
                       initCrosshairPosition, scrollXAnimation, ticks, crosshair,
                       hoveredSource, sizeVars, axisVars, envVars>>

SetSize(W) ==
    \E w \in W, h \in W :
        LET z == setSize([size |-> size, canvasSize |-> canvasSize,
                          topCanvasSize |-> topCanvasSize,
                          paneCellSize |-> paneCellSize, err |-> NoError],
                         Size(w, h))
        IN  /\ size' = z.size
            /\ canvasSize' = z.canvasSize
            /\ topCanvasSize' = z.topCanvasSize
            /\ paneCellSize' = z.paneCellSize
            /\ err' = z.err
            /\ calls' = <<>>
            /\ last' = Last("setSize", w, h, "", 0)
            /\ UNCHANGED <<zoomed, state, startScrollingPos, isScrolling, prevPinchScale,
                           longTap, startTrackPoint, exitTrackingModeOnNextTry,
                           initCrosshairPosition, scrollXAnimation, ticks, crosshair,
                           hoveredSource, axisVars, envVars, ret>>

Paint(L) ==
    \E type \in L :
        /\ Commit(paint(Cur, type), Last("paint", type, 0, "", 0))
        /\ UNCHANGED <<sizeVars, envVars, ret>>

UpdatePriceAxisWidgets ==
    /\ Commit(updatePriceAxisWidgets(Cur), Last("updatePriceAxisWidgets", 0, 0, "", 0))
    /\ UNCHANGED <<sizeVars, envVars, ret>>

\* The visible option of a price scale is changed.
AxisOptionsChanged ==
    /\ \E l \in BOOLEAN, r \in BOOLEAN :
           /\ <<l, r>> # <<leftAxisVisible, rightAxisVisible>>
           /\ leftAxisVisible' = l
           /\ rightAxisVisible' = r
    /\ last' = Last("axisOptions", 0, 0, "", 0)
    /\ calls' = <<>>
    /\ err' = NoError
    /\ UNCHANGED <<zoomed, state, startScrollingPos, isScrolling, prevPinchScale, longTap,
                   startTrackPoint, exitTrackingModeOnNextTry, initCrosshairPosition,
                   scrollXAnimation, ticks, crosshair, hoveredSource, sizeVars,
                   axisVars, sources, topViews, overlays, noSerieses, areaData,
                   priceScaleEmpty, timeScaleEmpty, options, isMobile, mobileTouch,
                   ret>>

\* Another part of the chart sets the hovered source of the chart model: a
\* source of this pane or not, with or without a hovered object.
HoverChanged(H) ==
    /\ \E h \in H :
           /\ h # hoveredSource
           /\ h # Null => h[1].source <= Len(sources)
           /\ hoveredSource' = h
    /\ last' = Last("hover", 0, 0, "", 0)
    /\ calls' = <<>>
    /\ err' = NoError
    /\ UNCHANGED <<zoomed, state, startScrollingPos, isScrolling, prevPinchScale, longTap,
                   startTrackPoint, exitTrackingModeOnNextTry, initCrosshairPosition,
                   scrollXAnimation, ticks, crosshair, sizeVars, axisVars, envVars,
                   ret>>

\* PaneRendererArea.setData.
SetData(D) ==
    /\ \E d \in D :
           /\ areaData # Some(d)
           /\ areaData' = Some(d)
    /\ last' = Last("setData", 0, 0, "", 0)
    /\ calls' = <<>>
    /\ err' = NoError
    /\ UNCHANGED <<zoomed, state, startScrollingPos, isScrolling, prevPinchScale, longTap,
                   startTrackPoint, exitTrackingModeOnNextTry, initCrosshairPosition,
                   scrollXAnimation, ticks, crosshair, hoveredSource, sizeVars,
                   axisVars, paneVars, priceScaleEmpty, timeScaleEmpty, options,
                   isMobile, mobileTouch, ret>>

\* PaneRendererArea.draw, which runs _drawImpl on the scaled context.
DrawArea ==
    LET r == drawImpl([calls |-> <<>>, err |-> NoError], areaData)
    IN  /\ calls' = r.calls
        /\ err' = r.err
        /\ last' = Last("drawArea", 0, 0, "", 0)
        /\ UNCHANGED <<zoomed, state, startScrollingPos, isScrolling, prevPinchScale, longTap,
                       startTrackPoint, exitTrackingModeOnNextTry,
                       initCrosshairPosition, scrollXAnimation, ticks, crosshair,
                       hoveredSource, sizeVars, axisVars, envVars, ret>>

\* The pinch option of handleScale is switched by applyOptions.
PinchOptionChanged ==
    /\ options' = [options EXCEPT !.pinch = ~@]
    /\ last' = Last("options", 0, 0, "", 0)
    /\ calls' = <<>>
    /\ err' = NoError
    /\ UNCHANGED <<zoomed, state, startScrollingPos, isScrolling, prevPinchScale,
                   longTap, startTrackPoint, exitTrackingModeOnNextTry,
                   initCrosshairPosition, scrollXAnimation, ticks, crosshair,
                   hoveredSource, sizeVars, axisVars, paneVars, areaData,
                   priceScaleEmpty, timeScaleEmpty, isMobile, mobileTouch, ret>>

\* The series data change: the scales become empty or non-empty.
DataChanged ==
    /\ \E p \in BOOLEAN, t \in BOOLEAN :
           /\ <<p, t>> # <<priceScaleEmpty, timeScaleEmpty>>
           /\ priceScaleEmpty' = p
           /\ timeScaleEmpty' = t
    /\ last' = Last("data", 0, 0, "", 0)
    /\ calls' = <<>>
    /\ err' = NoError
    /\ UNCHANGED <<zoomed, state, startScrollingPos, isScrolling, prevPinchScale, longTap,
                   startTrackPoint, exitTrackingModeOnNextTry, initCrosshairPosition,
                   scrollXAnimation, ticks, crosshair, hoveredSource, sizeVars,
                   axisVars, paneVars, areaData, options, isMobile, mobileTouch, ret>>

\* ------------------------------------------------------------ initial state
\* A pane whose sources have no top views and no scale of their own, with the
\* default visibility of the price scales, in a chart that has series.
PlainPane(srcs) ==
    /\ sources \in srcs
    /\ topViews = [k \in DOMAIN sources |-> <<>>]
    /\ overlays = [k \in DOMAIN sources |-> "no"]
    /\ leftAxisVisible = FALSE
    /\ rightAxisVisible = TRUE
    /\ noSerieses = FALSE
    /\ areaData = Null

\* The fields of a PaneWidget after its constructor.
InitFields ==
    /\ state = "pane"
    /\ startScrollingPos = Null
    /\ isScrolling = FALSE
    /\ prevPinchScale = 0
    /\ longTap = FALSE
    /\ startTrackPoint = Null
    /\ exitTrackingModeOnNextTry = FALSE
    /\ initCrosshairPosition = Null
    /\ scrollXAnimation = Null
    /\ leftPriceAxisWidget = (IF leftAxisVisible THEN PriceAxisWidget("left") ELSE Null)
    /\ rightPriceAxisWidget = (IF rightAxisVisible THEN PriceAxisWidget("right") ELSE Null)
    /\ ticks = <<>>
    /\ crosshair = Null
    /\ hoveredSource = Null
    /\ zoomed = Null
    /\ last = Last("constructor", 0, 0, "", 0)
    /\ calls = <<>>
    /\ err = NoError
    /\ ret = Null

InitWidget ==
    /\ InitFields
    /\ size = Size(0, 0)
    /\ canvasSize = Size(16, 16)
    /\ topCanvasSize = Size(16, 16)
    /\ paneCellSize = Null

\* The widget after its constructor and setSize(sz).
InitResized(sz) ==
    /\ InitFields
    /\ size = sz
    /\ canvasSize = sz
    /\ topCanvasSize = sz
    /\ paneCellSize = Some(sz)

\* isMobile and mobileTouch are two constants of the support-touch module.
Devices == [isMobile : BOOLEAN, mobileTouch : BOOLEAN]

Options == [pressedMouseMove : BOOLEAN, horzTouchDrag : BOOLEAN,
            vertTouchDrag : BOOLEAN, kineticTouch : BOOLEAN,
            kineticMouse : BOOLEAN, pinch : BOOLEAN]

DefaultOptions ==
    [pressedMouseMove |-> TRUE, horzTouchDrag |-> TRUE, vertTouchDrag |-> TRUE,
     kineticTouch |-> TRUE, kineticMouse |-> FALSE, pinch |-> TRUE]

View(r, h, c, d) == [renderer |-> r, hitTest |-> h, claims |-> c, data |-> d]

NoSources == <<>>

\* The kinds of pane view a source may have: no renderer, a renderer without
\* hitTest, a renderer with a hitTest that claims the points of x = 0 only.
ViewKinds == {View(FALSE, FALSE, {}, 0), View(TRUE, FALSE, {}, 0),
              View(TRUE, TRUE, {0}, 0)}
ViewLists == UNION {[1 .. m -> ViewKinds] : m \in 0 .. MaxViews}
SourceShapes == UNION {[1 .. n -> ViewLists] : n \in 0 .. MaxSources}
\* Every view returns an object of its own.
WithData(shape) ==
    [k \in DOMAIN shape |->
        [i \in DOMAIN shape[k] |->
            [shape[k][i] EXCEPT !.data = k * (MaxViews + 1) + i]]]
AllSources == {WithData(shape) : shape \in SourceShapes}

OneHitSource == WithData(<<<<View(TRUE, TRUE, {0}, 0)>>>>)

\* A pane view for painting: renderer as above, drawBackground tells whether
\* the renderer has a drawBackground.
PaintView(r, b) ==
    [renderer |-> r, hitTest |-> FALSE, claims |-> {}, data |-> 0, drawBackground |-> b]

\* The kinds of source that are painted: their pane views, their top pane
\* views and their relation to the price scales.
PaintSourceKinds ==
    {[views |-> <<PaintView(TRUE, TRUE)>>, top |-> <<>>, overlay |-> "no"],
     [views |-> <<PaintView(FALSE, FALSE), PaintView(TRUE, FALSE)>>,
      top |-> <<PaintView(TRUE, TRUE)>>, overlay |-> "scale"],
     [views |-> <<PaintView(TRUE, TRUE), PaintView(TRUE, TRUE)>>,
      top |-> <<PaintView(TRUE, FALSE), PaintView(FALSE, FALSE)>>,
      overlay |-> "noScale"],
     [views |-> <<>>, top |-> <<>>, overlay |-> "scale"]}
PaintPanes == UNION {[1 .. n -> PaintSourceKinds] : n \in 0 .. MaxSources}

\* A pane view that is drawn both ways and whose renderer claims the points
\* of c, returning an object whose hitTestData is p.
HoverView(c, p) ==
    [renderer |-> TRUE, hitTest |-> TRUE, claims |-> c,
     data |-> Some([hitTestData |-> p]), drawBackground |-> TRUE]

\* Two sources claiming different points; the object of the first has a
\* hitTestData or none, the second has a view without hitTest as well.
HoverPanes ==
    {<<<<HoverView({0}, p)>>, <<PaintView(TRUE, FALSE), HoverView({1}, 2)>>>> :
        p \in {Undefined, 1}}

HoveredSources ==
    {Null} \cup {Some([source |-> k, object |-> o]) :
                    k \in 0 .. MaxSources, o \in {Null, Some([hitTestData |-> 3])}}

\* The items of an area series: x grows with the index, y is 0 or 1.
ItemLists ==
    UNION {{[i \in 1 .. n |-> LineItem(i - 1, ys[i])] : ys \in [1 .. n -> 0 .. 1]} :
              n \in 0 .. MaxItems}
VisibleRanges ==
    {Null} \cup {Some([from |-> f, to |-> u]) : f \in 0 .. MaxItems, u \in 0 .. MaxItems}
BarWidths == {0, 2}
AreaDatas == [items : ItemLists, visibleRange : VisibleRanges, barWidth : BarWidths]

LineEvents(T) == {TouchMouseEvent(x, 0, t) : x \in 0 .. 1, t \in T}
CrossEvents == {TouchMouseEvent(x, 0, "touch") : x \in Coords}
                   \cup {TouchMouseEvent(0, y, "touch") : y \in Coords}

\* ----------------------------------------------------------- specifications
\* Hit testing over every arrangement of sources and views.
InitHit ==
    /\ PlainPane(AllSources)
    /\ InitWidget
    /\ isMobile = FALSE /\ mobileTouch = FALSE
    /\ options = DefaultOptions
    /\ priceScaleEmpty = FALSE /\ timeScaleEmpty = FALSE

NextHit ==
    \/ HitTest(LineEvents({"mouse"}))
    \/ StateDestroyed
    \/ SetState

SpecHit == InitHit /\ [][NextHit]_vars

\* Resizing, with valid and invalid sizes.
InitSize ==
    /\ PlainPane({NoSources})
    /\ InitWidget
    /\ isMobile = FALSE /\ mobileTouch = FALSE
    /\ options = DefaultOptions
    /\ priceScaleEmpty = FALSE /\ timeScaleEmpty = FALSE

NextSize ==
    \/ SetSize(Coords)
    \/ MouseEnter(LineEvents({"mouse"}))

SpecSize == InitSize /\ [][NextSize]_vars

\* Drag scrolling under every combination of the scroll options, desktop.
InitDrag ==
    /\ PlainPane({NoSources})
    /\ InitWidget
    /\ isMobile = FALSE /\ mobileTouch = FALSE
    /\ options \in {o \in Options : o.pinch}
    /\ priceScaleEmpty = FALSE /\ timeScaleEmpty = FALSE

NextDrag ==
    \/ MouseDown(LineEvents({"mouse"}))
    \/ PressedMouseMove(LineEvents(EventTypes))
    \/ DataChanged

SpecDrag == InitDrag /\ [][NextDrag]_vars

\* Kinetic scrolling on a touch screen that is not a mobile device: drags,
\* releases, requested frames, the clock and the destruction of the pane.
InitKinetic ==
    /\ PlainPane({NoSources})
    /\ InitWidget
    /\ isMobile = FALSE /\ mobileTouch = TRUE
    /\ options = DefaultOptions
    /\ priceScaleEmpty \in BOOLEAN /\ timeScaleEmpty = FALSE

NextKinetic ==
    \/ MouseDown(LineEvents({"touch"}))
    \/ PressedMouseMove(LineEvents({"touch"}))
    \/ MouseUp(LineEvents({"touch"}))
    \/ PinchStart
    \/ AnimationFrame
    \/ TimePasses
    \/ StateDestroyed

SpecKinetic == InitKinetic /\ [][NextKinetic]_vars

\* Tracking mode on a mobile device, in two dimensions, scrolling disabled.
InitTrack ==
    /\ PlainPane({NoSources})
    /\ InitResized(Size(MaxCoord, MaxCoord))
    /\ isMobile = TRUE /\ mobileTouch = TRUE
    /\ options = [o \in DOMAIN DefaultOptions |-> FALSE]
    /\ priceScaleEmpty = FALSE /\ timeScaleEmpty = FALSE

NextTrack ==
    \/ MouseDown(CrossEvents)
    \/ PressedMouseMove(CrossEvents)
    \/ MouseClick(CrossEvents)
    \/ LongTap(CrossEvents)
    \/ SetSize(0 .. MaxCoord)

SpecTrack == InitTrack /\ [][NextTrack]_vars

\* Every handler on a mobile device, scrolling enabled without kinetic
\* animation, with the pane destroyed and set again.
InitGesture ==
    /\ PlainPane({OneHitSource})
    /\ InitWidget
    /\ isMobile = TRUE /\ mobileTouch = TRUE
    /\ options = [DefaultOptions EXCEPT !.kineticTouch = FALSE]
    /\ priceScaleEmpty = FALSE /\ timeScaleEmpty = FALSE

NextGesture ==
    \/ MouseEnter(LineEvents({"touch"}))
    \/ MouseDown(LineEvents({"touch"}))
    \/ MouseMove(LineEvents({"touch"}))
    \/ MouseClick(LineEvents({"touch"}))
    \/ PressedMouseMove(LineEvents({"touch"}))
    \/ MouseUp(LineEvents({"touch"}))
    \/ LongTap(LineEvents({"touch"}))
    \/ MouseLeave(LineEvents({"touch"}))
    \/ PinchStart
    \/ Pinch({0})
    \/ StateDestroyed
    \/ SetState

SpecGesture == InitGesture /\ [][NextGesture]_vars

\* Painting at every level, with the price axis widgets following the
\* visibility of their scales, resizes, and the pane destroyed and set again.
InitPaint ==
    /\ \E pn \in PaintPanes :
           /\ sources = [k \in DOMAIN pn |-> pn[k].views]
           /\ topViews = [k \in DOMAIN pn |-> pn[k].top]
           /\ overlays = [k \in DOMAIN pn |-> pn[k].overlay]
    /\ leftAxisVisible \in BOOLEAN /\ rightAxisVisible \in BOOLEAN
    /\ noSerieses = FALSE
    /\ areaData = Null
    /\ InitWidget
    /\ isMobile = FALSE /\ mobileTouch = FALSE
    /\ options = DefaultOptions
    /\ priceScaleEmpty = FALSE /\ timeScaleEmpty = FALSE

NextPaint ==
    \/ Paint(InvalidationLevels)
    \/ AxisOptionsChanged
    \/ UpdatePriceAxisWidgets
    \/ SetSize({MaxCoord})
    \/ StateDestroyed
    \/ SetState

SpecPaint == InitPaint /\ [][NextPaint]_vars

\* The area renderer given every data of the bounds and drawn.
InitArea ==
    /\ PlainPane({NoSources})
    /\ InitWidget
    /\ isMobile = FALSE /\ mobileTouch = FALSE
    /\ options = DefaultOptions
    /\ priceScaleEmpty = FALSE /\ timeScaleEmpty = FALSE

NextArea ==
    \/ SetData(AreaDatas)
    \/ DrawArea

SpecArea == InitArea /\ [][NextArea]_vars

\* The crosshair handlers under every combination of the two device flags,
\* in a pane of 2 by 2 or more, with the scales emptied and filled again.
InitDevices ==
    /\ PlainPane({OneHitSource})
    /\ InitResized(Size(MaxCoord, MaxCoord))
    /\ \E d \in Devices : isMobile = d.isMobile /\ mobileTouch = d.mobileTouch
    /\ options = DefaultOptions
    /\ priceScaleEmpty = FALSE /\ timeScaleEmpty = FALSE

NextDevices ==
    \/ MouseEnter(LineEvents({"mouse"}))
    \/ MouseDown(LineEvents({"mouse"}))
    \/ MouseMove(LineEvents({"mouse"}))
    \/ MouseClick(LineEvents({"mouse"}))
    \/ LongTap(LineEvents({"mouse"}))
    \/ MouseLeave(LineEvents({"mouse"}))
    \/ DataChanged

SpecDevices == InitDevices /\ [][NextDevices]_vars

\* Painting while the hovered source changes: by the pointer moving over the
\* views, by the pointer leaving, and by other parts of the chart.
InitHover ==
    /\ sources \in HoverPanes
    /\ topViews = [k \in DOMAIN sources |-> IF k = 1 THEN <<PaintView(TRUE, TRUE)>> ELSE <<>>]
    /\ overlays = [k \in DOMAIN sources |-> "no"]
    /\ leftAxisVisible = FALSE /\ rightAxisVisible = TRUE
    /\ noSerieses = FALSE
    /\ areaData = Null
    /\ InitResized(Size(MaxCoord, MaxCoord))
    /\ isMobile = FALSE /\ mobileTouch = FALSE
    /\ options = DefaultOptions
    /\ priceScaleEmpty = FALSE /\ timeScaleEmpty = FALSE

NextHover ==
    \/ MouseMove(LineEvents({"mouse"}))
    \/ MouseLeave(LineEvents({"mouse"}))
    \/ HoverChanged(HoveredSources)
    \/ Paint({InvalidationLevelCursor, InvalidationLevelFull})

SpecHover == InitHover /\ [][NextHover]_vars

\* Pinch gestures with the pinch option switched on and off, on a pane that
\* may be destroyed.
InitPinch ==
    /\ PlainPane({NoSources})
    /\ InitWidget
    /\ isMobile = FALSE /\ mobileTouch = TRUE
    /\ options \in {o \in Options : o = [DefaultOptions EXCEPT !.pinch = o.pinch]}
    /\ priceScaleEmpty = FALSE /\ timeScaleEmpty = FALSE

NextPinch ==
    \/ PinchStart
    \/ Pinch(0 .. 1)
    \/ PinchOptionChanged
    \/ StateDestroyed

SpecPinch == InitPinch /\ [][NextPinch]_vars

\* ------------------------------------------------------------------ claims
InputOps == {"enter", "down", "move", "pressedMove", "click", "up", "longTap",
             "leave", "pinchStart", "pinch"}

ScrollCalls == {"startScrollTime", "scrollTimeTo", "endScrollTime",
                "startScrollPrice", "scrollPriceTo", "endScrollPrice", "zoomTime"}

ModelCalls == ScrollCalls \cup {"setAndSaveCurrentPosition", "clearCurrentPosition",
                                "setHoveredSource"}

CalledAny(cs, fns) == \E i \in DOMAIN cs : cs[i].fn \in fns

\* The views that claim x: a renderer, with hitTest, returning an object at x.
ViewClaims(k, i, x) ==
    /\ sources[k][i].renderer
    /\ sources[k][i].hitTest
    /\ x \in sources[k][i].claims

Matches(x) == {p \in (DOMAIN sources) \X (1 .. MaxViews + 1) :
                   p[2] \in DOMAIN sources[p[1]] /\ ViewClaims(p[1], p[2], x)}

Before(p, q) == p[1] < q[1] \/ (p[1] = q[1] /\ p[2] < q[2])

FirstMatch(x) == CHOOSE p \in Matches(x) : \A q \in Matches(x) : q = p \/ Before(p, q)

\* C1: hitTest returns the first source, in orderedSources() order, with the
\* first of its views whose renderer exists, has hitTest and claims the point,
\* together with that view and its object; nothing after that view is asked,
\* hitTest is asked only of renderers that have it, no error is raised, and
\* the result is null when no view claims the point or the pane is detached.
C1_HitTestFirstMatch ==
    last.op = "hitTest" =>
        /\ err = NoError
        /\ \A c \in DOMAIN calls :
               calls[c].fn = "renderer.hitTest" =>
                   /\ sources[calls[c].a][calls[c].b].renderer
                   /\ sources[calls[c].a][calls[c].b].hitTest
        /\ IF state = "null" THEN ret = Null /\ calls = <<>>
           ELSE IF Matches(last.x) = {} THEN ret = Null
           ELSE LET p == FirstMatch(last.x)
                IN  /\ ret = Some([source |-> p[1], view |-> p[2],
                                   object |-> sources[p[1]][p[2]].data])
                    /\ \A c \in DOMAIN calls :
                           ~Before(p, <<calls[c].a, calls[c].b>>)

\* Two sources both claim the point, the first one behind a view without a
\* renderer, and the first source is returned.
C1_Witness ==
    /\ last.op = "hitTest"
    /\ state = "pane"
    /\ Len(sources) = 2
    /\ Len(sources[1]) = 2
    /\ ~sources[1][1].renderer
    /\ ViewClaims(1, 2, last.x)
    /\ Len(sources[2]) >= 1
    /\ ViewClaims(2, 1, last.x)
    /\ ret # Null
    /\ ret[1].source = 1
    /\ ret[1].view = 2

\* C2: with the pane reference null every input handler is a silent no-op: no
\* error, no call on the chart model, the interaction session state unchanged.
C2_DetachedHandlersAreNoOps ==
    [][(state = "null" /\ last'.op \in InputOps) =>
          /\ err' = NoError
          /\ ~CalledAny(calls', ModelCalls)
          /\ UNCHANGED <<longTap, exitTrackingModeOnNextTry, startTrackPoint,
                         startScrollingPos, isScrolling, prevPinchScale,
                         scrollXAnimation>>]_vars

\* C3: a requested frame whose animation has been terminated does nothing when
\* it runs: no getPosition, no scroll, no end of scroll, no new frame, no error,
\* and no field of the widget or the chart model changes.
C3_TerminatedTickIsSwallowed ==
    [][(last'.op = "tick" /\ ticks # <<>> /\ animTerminated(TickAnim(Cur, Head(ticks)))) =>
          /\ calls' = <<>>
          /\ err' = NoError
          /\ ticks' = Tail(ticks)
          /\ UNCHANGED <<state, startScrollingPos, isScrolling, scrollXAnimation,
                         crosshair, hoveredSource, longTap, startTrackPoint>>]_vars

\* A frame of a terminated animation has run while a scroll was going on.
C3_Witness ==
    /\ last.op = "tick"
    /\ last.n = 1
    /\ isScrolling
    /\ state = "pane"

\* The scroll session is in the hands of the animation loop: a frame of the
\* widget's animation is requested and the session is not finished.
HandedOff ==
    /\ isScrolling
    /\ scrollXAnimation # Null
    /\ \E i \in DOMAIN ticks : ticks[i].cur

\* No requested frame can act any more.
LoopStopped ==
    /\ scrollXAnimation = Null
    /\ \A i \in DOMAIN ticks : animTerminated(ticks[i].anim)

\* C4: a scroll session handed off to the animation loop is finalized when
\* the loop stops (finished, terminated by down or pinch-start, or no change
\* of the right offset); stated for an attached pane.
C4_HandedOffSessionIsFinalized ==
    [][(HandedOff /\ state = "pane" /\ state' = "pane" /\ LoopStopped') =>
          (~isScrolling' /\ startScrollingPos' = Null)]_vars

\* C5: at most one animation frame is pending.
C5_AtMostOnePendingTick == Len(ticks) <= 1

\* C6: a frame that runs after the pane was destroyed raises no error.
C6_TickAfterDestroyDoesNotThrow ==
    (last.op = "tick" /\ state = "null") => err = NoError

\* The pressed-move handled in tracking mode, with its recorded crosshair.
TrackingMove ==
    /\ last'.op = "pressedMove"
    /\ state = "pane"
    /\ startTrackPoint # Null
    /\ initCrosshairPosition # Null

TrackedX == Add(initCrosshairPosition[1].x, Sub(last'.x, startTrackPoint[1].x))
TrackedY == Add(initCrosshairPosition[1].y, Sub(last'.y, startTrackPoint[1].y))

\* max(0, min(v, n - 1)) in JavaScript arithmetic.
Clamp(v, n) ==
    IF v = NaN THEN NaN
    ELSE IF v > n - 1 THEN (IF n - 1 < 0 THEN 0 ELSE n - 1)
    ELSE IF v < 0 THEN 0
    ELSE v

\* C7 as stated: in tracking mode the crosshair handed to the model is exactly
\* (cx + dx, cy + dy), also outside the pane.
C7_TrackingIsExactlyRelative ==
    [][TrackingMove =>
          (calls' # <<>> /\
           calls'[1] = CallRec("setAndSaveCurrentPosition", TrackedX, TrackedY))]_vars

\* C7 amended: in tracking mode the crosshair handed to the model is
\* (cx + dx, cy + dy) with each coordinate clamped to the pane, that is
\* (max(0, min(cx + dx, w - 1)), max(0, min(cy + dy, h - 1))).
C7_TrackingIsRelativeAndClamped ==
    [][TrackingMove =>
          (calls' # <<>> /\
           calls'[1] = CallRec("setAndSaveCurrentPosition",
                               Clamp(TrackedX, size.w), Clamp(TrackedY, size.h)))]_vars

\* A pressed-move in tracking mode moved the crosshair inside the pane by the
\* pointer's own displacement, in x and in y, away from the pointer.
C7_Witness ==
    /\ last.op = "pressedMove"
    /\ startTrackPoint # Null
    /\ initCrosshairPosition # Null
    /\ calls # <<>>
    /\ calls[1].fn = "setAndSaveCurrentPosition"
    /\ last.x # startTrackPoint[1].x
    /\ calls[1].a = initCrosshairPosition[1].x + (last.x - startTrackPoint[1].x)
    /\ calls[1].b = initCrosshairPosition[1].y + (last.y - startTrackPoint[1].y)
    /\ calls[1].a # last.x

\* C8: a pressed-move handled while the track point is set never begins a
\* drag-scroll.
C8_TrackingMasksScrollStart ==
    [][(last'.op = "pressedMove" /\ state = "pane" /\ startTrackPoint # Null) =>
          /\ ~CalledAny(calls', {"startScrollTime", "startScrollPrice"})
          /\ (isScrolling' => isScrolling)]_vars

\* The pressed-move of C9: mouse with pressedMouseMove disabled, or touch with
\* both touch drags disabled.
DisabledDrag ==
    /\ last'.op = "pressedMove"
    /\ \/ (last'.type = "mouse" /\ ~options.pressedMouseMove)
       \/ (last'.type = "touch" /\ ~options.horzTouchDrag /\ ~options.vertTouchDrag)

\* C9: such a pressed-move mutates no viewport: no scroll call, no start-scroll
\* position recorded, no kinetic animation created or fed.
C9_DisabledDragDoesNotScroll ==
    [][DisabledDrag =>
          /\ ~CalledAny(calls', ScrollCalls \cup {"new KineticAnimation", "addPosition"})
          /\ UNCHANGED <<startScrollingPos, isScrolling, scrollXAnimation, ticks>>]_vars

\* A mouse pressed-move with pressedMouseMove disabled and the touch drags
\* enabled, handled while a touch drag is scrolling, at another point.
C9_Witness ==
    /\ last.op = "pressedMove"
    /\ last.type = "mouse"
    /\ ~options.pressedMouseMove
    /\ options.horzTouchDrag
    /\ options.vertTouchDrag
    /\ state = "pane"
    /\ isScrolling
    /\ startScrollingPos # Null
    /\ startScrollingPos[1].localX # last.x
    /\ calls # <<>>

\* C10: setSize with a negative width or height fails with an error and keeps
\* the stored size, both canvas surfaces and the pane cell as they were.
C10_InvalidSizeIsRejected ==
    [][(last'.op = "setSize" /\ (last'.x < 0 \/ last'.y < 0)) =>
          (err' = SizeError /\ UNCHANGED sizeVars)]_vars

\* An invalid setSize after a valid one: the valid size is still in place.
C10_Witness ==
    /\ last.op = "setSize"
    /\ last.x >= 0
    /\ last.y < 0
    /\ err = SizeError
    /\ size.w > 0
    /\ canvasSize = size
    /\ paneCellSize = Some(size)

\* --------------------------------------------------------- claims on paint
RecalcCalls == {"recalculatePriceScale.left", "recalculatePriceScale.right",
                "recalculatePriceScale", "updateAllViews"}
AxisCalls == {"PriceAxisWidget.paint"}
ContentCalls == {"background", "grid.draw", "watermark.drawBackground",
                 "watermark.draw", "drawBackground", "draw"}
TopCalls == {"top.clearRect", "top.drawBackground", "top.draw", "crosshair.draw"}

Idx(fns) == {i \in DOMAIN calls : calls[i].fn \in fns}
IdxOf(fn, a, b) == {i \in DOMAIN calls : calls[i] = CallRec(fn, a, b)}
AllBefore(I, J) == \A i \in I, j \in J : i < j
Painted == last.op = "paint" /\ last.x # InvalidationLevelNone /\ state = "pane"

\* C11: paint does nothing at level none and on a detached pane; at the
\* cursor level it recalculates no price scale and repaints no content, paints
\* the existing axis widgets at that level and repaints the overlay surface;
\* above the cursor level it recalculates the left scale, the right scale and
\* the scale of each overlay source before anything is painted, then paints
\* the axis widgets, the content surface and the overlay surface.
C11_PaintByLevel ==
    last.op = "paint" =>
        /\ err = NoError
        /\ IF last.x = InvalidationLevelNone \/ state = "null" THEN calls = <<>>
           ELSE /\ Cardinality(IdxOf("PriceAxisWidget.paint", 0, last.x))
                       = (IF leftPriceAxisWidget # Null THEN 1 ELSE 0)
                /\ Cardinality(IdxOf("PriceAxisWidget.paint", 1, last.x))
                       = (IF rightPriceAxisWidget # Null THEN 1 ELSE 0)
                /\ Cardinality(Idx(AxisCalls))
                       = Cardinality({w \in {leftPriceAxisWidget, rightPriceAxisWidget} :
                                         w # Null})
                /\ CountCalled(calls, "top.clearRect") = 1
                /\ CountCalled(calls, "crosshair.draw") = 1
                /\ AllBefore(Idx(AxisCalls), Idx(ContentCalls \cup TopCalls))
                /\ AllBefore(Idx(ContentCalls), Idx(TopCalls))
                /\ IF last.x = InvalidationLevelCursor
                   THEN Idx(RecalcCalls) = {} /\ Idx(ContentCalls) = {}
                   ELSE /\ CountCalled(calls, "recalculatePriceScale.left") = 1
                        /\ CountCalled(calls, "recalculatePriceScale.right") = 1
                        /\ \A k \in DOMAIN overlays :
                               Cardinality(IdxOf("recalculatePriceScale", k, 0))
                                   = (IF overlays[k] = "scale" THEN 1 ELSE 0)
                        /\ CountCalled(calls, "recalculatePriceScale")
                               = Cardinality({k \in DOMAIN overlays :
                                                 overlays[k] = "scale"})
                        /\ AllBefore(Idx(RecalcCalls),
                                     Idx(AxisCalls \cup ContentCalls \cup TopCalls))
                        /\ CountCalled(calls, "background") = 1
                        /\ CountCalled(calls, "grid.draw") = 1

\* A paint above the cursor level with both axis widgets, an overlay source
\* with a scale of its own and one without.
C11_Witness ==
    /\ Painted
    /\ last.x > InvalidationLevelCursor
    /\ leftPriceAxisWidget # Null
    /\ rightPriceAxisWidget # Null
    /\ \E k \in DOMAIN overlays : overlays[k] = "scale"
    /\ \E k \in DOMAIN overlays : overlays[k] = "noScale"
    /\ Called(calls, "recalculatePriceScale")
    /\ Called(calls, "draw")

\* The views of the sources that a pass draws: those with a renderer, and for
\* the background pass with a drawBackground.
DrawnViews(allViews, background) ==
    {q \in (DOMAIN allViews) \X (1 .. MaxViews + 1) :
        /\ q[2] \in DOMAIN allViews[q[1]]
        /\ allViews[q[1]][q[2]].renderer
        /\ background => allViews[q[1]][q[2]].drawBackground}

\* The calls named fn are one per view of V, in the order of the sources and
\* of their views.
OnePerViewInOrder(fn, V) ==
    /\ \A i \in Idx({fn}) : <<calls[i].a, calls[i].b>> \in V
    /\ \A q \in V : Cardinality(IdxOf(fn, q[1], q[2])) = 1
    /\ \A i, j \in Idx({fn}) :
           i < j => Before(<<calls[i].a, calls[i].b>>, <<calls[j].a, calls[j].b>>)

\* C12: when the content surface is repainted the draws are, in this order,
\* the pane background, the grid, the watermark, the background draw of every
\* view of every ordered source, the foreground draw of every view of every
\* ordered source; so every background draw of a source precedes every
\* foreground draw of any source.
C12_BackgroundsBeforeForegrounds ==
    (Painted /\ last.x # InvalidationLevelCursor) =>
        /\ CountCalled(calls, "background") = 1
        /\ CountCalled(calls, "grid.draw") = 1
        /\ CountCalled(calls, "watermark.drawBackground") = 1
        /\ CountCalled(calls, "watermark.draw") = 1
        /\ AllBefore(Idx({"background"}), Idx({"grid.draw"}))
        /\ AllBefore(Idx({"grid.draw"}), Idx({"watermark.drawBackground"}))
        /\ AllBefore(Idx({"watermark.drawBackground"}), Idx({"watermark.draw"}))
        /\ AllBefore(Idx({"watermark.draw"}), Idx({"drawBackground", "draw"}))
        /\ OnePerViewInOrder("drawBackground", DrawnViews(sources, TRUE))
        /\ OnePerViewInOrder("draw", DrawnViews(sources, FALSE))
        /\ AllBefore(Idx({"drawBackground"}), Idx({"draw"}))

\* The content surface was repainted with two sources, the second of which
\* has a background draw and the first a foreground draw.
C12_Witness ==
    /\ Painted
    /\ last.x = InvalidationLevelFull
    /\ Len(sources) = 2
    /\ \E i \in DOMAIN calls : calls[i].fn = "drawBackground" /\ calls[i].a = 2
    /\ \E i \in DOMAIN calls : calls[i].fn = "draw" /\ calls[i].a = 1
    /\ \E q \in DrawnViews(sources, FALSE) : q \notin DrawnViews(sources, TRUE)

\* C13: every paint above level none of an attached pane clears the whole
\* overlay surface, then draws the top views of all ordered sources, then
\* draws the crosshair, which is the last draw of the paint.
C13_OverlayClearedThenTopThenCrosshair ==
    Painted =>
        /\ err = NoError
        /\ IdxOf("top.clearRect", topCanvasSize.w, topCanvasSize.h) # {}
        /\ CountCalled(calls, "top.clearRect") = 1
        /\ AllBefore(Idx({"top.clearRect"}), Idx({"top.drawBackground", "top.draw"}))
        /\ OnePerViewInOrder("top.drawBackground", DrawnViews(topViews, TRUE))
        /\ OnePerViewInOrder("top.draw", DrawnViews(topViews, FALSE))
        /\ AllBefore(Idx({"top.drawBackground"}), Idx({"top.draw"}))
        /\ CountCalled(calls, "crosshair.draw") = 1
        /\ calls[Len(calls)].fn = "crosshair.draw"

\* The order of C13 alone, whatever the rectangle that is cleared.
OverlayOrder ==
    Painted =>
        /\ CountCalled(calls, "top.clearRect") = 1
        /\ AllBefore(Idx({"top.clearRect"}), Idx({"top.drawBackground", "top.draw"}))
        /\ OnePerViewInOrder("top.drawBackground", DrawnViews(topViews, TRUE))
        /\ OnePerViewInOrder("top.draw", DrawnViews(topViews, FALSE))
        /\ calls[Len(calls)].fn = "crosshair.draw"

\* ------------------------------------------------- claims on the area renderer
AreaDrawn == last.op = "drawArea" /\ areaData # Null

IsPathPoint(c) == c.fn \in {"moveTo", "lineTo", "walkLine.lineTo"}
IsWalked(c) == c.fn = "walkLine.lineTo"
PathPoints == SelectSeq(calls, IsPathPoint)
\* The indexes the walked line visits: the x of item i is i.
Walked == [n \in DOMAIN SelectSeq(calls, IsWalked) |-> SelectSeq(calls, IsWalked)[n].a]
Ascending(a, b) == [n \in 1 .. (IF b > a THEN b - a ELSE 0) |-> a + n - 1]

PathClosed ==
    /\ PathPoints # <<>>
    /\ PathPoints[1].a = PathPoints[Len(PathPoints)].a
    /\ PathPoints[1].b = PathPoints[Len(PathPoints)].b

\* Two items or more and a non-empty visible range within them.
AreaOfSeveral ==
    /\ AreaDrawn
    /\ Len(areaData[1].items) >= 2
    /\ areaData[1].visibleRange # Null
    /\ areaData[1].visibleRange[1].from < areaData[1].visibleRange[1].to
    /\ areaData[1].visibleRange[1].to <= Len(areaData[1].items)

\* C14 as stated: for two items or more and every visible range within them
\* the path is closed and the walked line visits every index of the range
\* once, in ascending order, also when the range starts at index 0.
C14_WalksWholeRange ==
    AreaOfSeveral =>
        /\ err = NoError
        /\ PathClosed
        /\ Walked = Ascending(areaData[1].visibleRange[1].from,
                              areaData[1].visibleRange[1].to)

\* C14 amended: for two items or more and every visible range [from, to)
\* within them with to > max(from, 1), the path is closed and the walked line
\* visits the indexes max(from, 1) .. to - 1 once each, in ascending order;
\* index 0 is never walked.
C14_WalksRangeAfterAnchor ==
    (AreaOfSeveral /\ areaData[1].visibleRange[1].to > 1) =>
        /\ err = NoError
        /\ PathClosed
        /\ Walked = Ascending(IF areaData[1].visibleRange[1].from = 0 THEN 1
                              ELSE areaData[1].visibleRange[1].from,
                              areaData[1].visibleRange[1].to)

\* Three items drawn over the range [0, 3): the indexes 1 and 2 are walked
\* and the path is closed.
C14_Witness ==
    /\ AreaOfSeveral
    /\ Len(areaData[1].items) = 3
    /\ areaData[1].visibleRange[1] = [from |-> 0, to |-> 3]
    /\ areaData[1].items[1].y # areaData[1].items[2].y
    /\ Walked = <<1, 2>>
    /\ PathClosed
    /\ Called(calls, "fill")

\* C15: for one item (x, y) and any visible range that is not null the path
\* has only points at height y, at x - barWidth / 2 and at x + barWidth / 2,
\* and no item other than that of index 0 is read.
C15_SinglePointSlab ==
    (AreaDrawn /\ Len(areaData[1].items) = 1 /\ areaData[1].visibleRange # Null) =>
        LET point == areaData[1].items[1]
            left == point.x - areaData[1].barWidth \div 2
            right == point.x + areaData[1].barWidth \div 2
        IN  /\ err = NoError
            /\ \A n \in DOMAIN PathPoints :
                   PathPoints[n].b = point.y /\ PathPoints[n].a \in {left, right}
            /\ \E n \in DOMAIN PathPoints : PathPoints[n].a = left
            /\ \E n \in DOMAIN PathPoints : PathPoints[n].a = right
            /\ PathPoints[1].fn = "moveTo"
            /\ \A n \in DOMAIN calls : calls[n].fn = "items[]" => calls[n].a = 0
            /\ Called(calls, "fill")

\* One item drawn with a bar width of 2 and a visible range that lies beyond
\* the item.
C15_Witness ==
    /\ AreaDrawn
    /\ Len(areaData[1].items) = 1
    /\ areaData[1].barWidth = 2
    /\ areaData[1].visibleRange # Null
    /\ areaData[1].visibleRange[1].from >= 1
    /\ areaData[1].visibleRange[1].to > areaData[1].visibleRange[1].from
    /\ Len(PathPoints) = 4
    /\ PathPoints[1].a = 0 - 1
    /\ PathPoints[4].a = 1

\* ------------------------------------------------- claims on the crosshair
\* C16: a hover move handled while the crosshair movement is suppressed
\* (tracking behind a long tap, no track point) clears the crosshair and does
\* not move it, under every combination of isMobile and mobileTouch.
C16_SuppressedMoveClearsCrosshair ==
    [][(last'.op = "move" /\ state = "pane" /\ preventCrosshairMove(Cur)) =>
          /\ crosshair' = Null
          /\ ~Called(calls', "setAndSaveCurrentPosition")]_vars

\* The down event of C17: attached pane, price scale and time scale not empty.
DownOnData ==
    /\ last'.op = "down"
    /\ state = "pane"
    /\ ~priceScaleEmpty
    /\ ~timeScaleEmpty

\* The tracking origin is re-anchored at the event point.
ReAnchored ==
    /\ startTrackPoint' = Some(Point(last'.x, last'.y))
    /\ initCrosshairPosition' = Some(Point(appliedX(Cur), appliedY(Cur)))

\* The crosshair is set to the event point, corrected to the pane.
CrosshairSetToEvent ==
    /\ calls' = <<CallRec("setAndSaveCurrentPosition",
                          correctXCoord(last'.x), correctYCoord(last'.y))>>
    /\ crosshair' = Some(Point(correctXCoord(last'.x), correctYCoord(last'.y)))

\* C17 as stated: in tracking mode a down re-anchors the tracking origin and
\* does not move the crosshair; otherwise it sets the crosshair to the event
\* point.
C17_DownReAnchorsOrSetsCrosshair ==
    [][DownOnData =>
          IF startTrackPoint # Null
          THEN ReAnchored /\ ~Called(calls', "setAndSaveCurrentPosition")
          ELSE CrosshairSetToEvent]_vars

\* C17 amended: a down re-anchors the tracking origin exactly when tracking
\* mode is active; whether tracking or not, it sets the crosshair to the
\* event point when mobileTouch is false and leaves the crosshair alone when
\* mobileTouch is true.
C17_DownReAnchorsAndSetsCrosshairUnlessTouch ==
    [][DownOnData =>
          /\ IF startTrackPoint # Null THEN ReAnchored
             ELSE UNCHANGED <<startTrackPoint, initCrosshairPosition>>
          /\ IF mobileTouch THEN calls' = <<>> /\ UNCHANGED crosshair
             ELSE CrosshairSetToEvent]_vars

\* A down in tracking mode on a touch device has re-anchored the origin away
\* from the crosshair, which stayed where it was.
C17_Witness ==
    /\ last.op = "down"
    /\ mobileTouch
    /\ state = "pane"
    /\ startTrackPoint = Some(Point(last.x, last.y))
    /\ initCrosshairPosition # Null
    /\ crosshair # Null
    /\ initCrosshairPosition[1] = crosshair[1]
    /\ crosshair[1].x # last.x
    /\ exitTrackingModeOnNextTry

Tracking == startTrackPoint # Null
Armed == exitTrackingModeOnNextTry

\* C18: on an attached pane, a down arms the pending exit exactly when a
\* track point exists, a pressed-move in tracking mode disarms it, and a click
\* in tracking mode leaves tracking mode (track point and crosshair cleared)
\* if and only if the exit is armed.  Nothing but a down arms the exit,
\* nothing but a pressed-move or a click takes an armed exit or its track
\* point away, and tracking mode starts disarmed: so down then click exits,
\* down, pressed-move, click does not, and a click does not exit a tracking
\* mode started after the last down.
C18_TrackingExitProtocol ==
    [][/\ last'.op = "down" => (Armed' <=> Tracking)
       /\ (last'.op = "pressedMove" /\ state = "pane" /\ Tracking) => ~Armed'
       /\ (last'.op = "click" /\ state = "pane" /\ Tracking /\ Armed) =>
              (~Tracking' /\ crosshair' = Null /\ Called(calls', "clearCurrentPosition"))
       /\ (last'.op = "click" /\ state = "pane" /\ Tracking /\ ~Armed) =>
              (UNCHANGED <<startTrackPoint, crosshair>>
               /\ ~Called(calls', "clearCurrentPosition"))
       /\ (last'.op # "down" /\ ~Armed) => ~Armed'
       /\ (last'.op \notin {"pressedMove", "click"} /\ Tracking /\ Armed) =>
              (Tracking' /\ Armed')
       /\ (~Tracking /\ Tracking') => ~Armed'
      ]_vars

\* A click has just left a tracking mode that had a crosshair.
C18_Witness ==
    /\ last.op = "click"
    /\ state = "pane"
    /\ ~Tracking
    /\ Armed
    /\ initCrosshairPosition # Null
    /\ crosshair = Null
    /\ Called(calls, "clearCurrentPosition")

\* ----------------------------------------------------- claims on scrolling
EndScrollCalls == {"endScrollTime", "endScrollPrice"}

\* C19: an up on an attached pane requests no frame and ends no scroll when
\* no scroll is active; when a scroll is active and there is no kinetic
\* animation, or the animation is finished right after start(), it finalizes
\* the session in the handler and requests no frame; otherwise it requests
\* exactly one frame and leaves the session unfinalized.
C19_UpResolvesScrollSession ==
    [][(last'.op = "up" /\ state = "pane") =>
          /\ err' = NoError
          /\ IF ~isScrolling
             THEN /\ ticks' = ticks
                  /\ ~CalledAny(calls', EndScrollCalls \cup {"requestAnimationFrame"})
                  /\ UNCHANGED <<isScrolling, startScrollingPos, scrollXAnimation>>
             ELSE IF scrollXAnimation = Null \/ animFinished(scrollXAnimation'[1])
             THEN /\ CountCalled(calls', "endScrollTime") = 1
                  /\ CountCalled(calls', "endScrollPrice") = 1
                  /\ ~isScrolling'
                  /\ startScrollingPos' = Null
                  /\ ticks' = ticks
                  /\ ~Called(calls', "requestAnimationFrame")
             ELSE /\ CountCalled(calls', "requestAnimationFrame") = 1
                  /\ Len(ticks') = Len(ticks) + 1
                  /\ isScrolling'
                  /\ startScrollingPos' = startScrollingPos
                  /\ ~CalledAny(calls', EndScrollCalls)]_vars

\* An up has handed a scroll over to the animation: one frame is requested
\* and the session is still open.
C19_Witness ==
    /\ last.op = "up"
    /\ state = "pane"
    /\ isScrolling
    /\ startScrollingPos # Null
    /\ scrollXAnimation # Null
    /\ ~animFinished(scrollXAnimation[1])
    /\ Len(ticks) = 1
    /\ CountCalled(calls, "requestAnimationFrame") = 1

\* A pressed-move of a drag whose scroll has not begun: it follows the down,
\* or a pressed-move after which nothing scrolls; drag-scroll is enabled for
\* its input type, tracking mode is off and the time scale is not empty.
DragMoveBeforeScroll ==
    /\ last'.op = "pressedMove"
    /\ state = "pane"
    /\ ~timeScaleEmpty
    /\ ~dragDisabled([type |-> last'.type])
    /\ ~Tracking
    /\ last.op = "down" \/ (last.op = "pressedMove" /\ ~isScrolling)

\* Its position differs from the sampled start position.
DiffersFromStart ==
    /\ startScrollingPos # Null
    /\ startScrollingPos[1].x # last'.x \/ startScrollingPos[1].y # last'.y

\* A kinetic animation is created and fed the start sample and this sample.
AnimationCreatedAndFed ==
    /\ scrollXAnimation' # Null
    /\ \E i \in DOMAIN calls' :
           /\ i + 2 \in DOMAIN calls'
           /\ calls'[i].fn = "new KineticAnimation"
           /\ calls'[i + 1] = CallRec("addPosition", startScrollingPos[1].localX, 0)
           /\ calls'[i + 2] = CallRec("addPosition", last'.x, 0)

\* C20: in a drag made of a down and pressed-moves, the scroll begins
\* (startScrollTime, scrolling flag) on the first pressed-move whose position
\* differs from the sampled start position, and not before; a kinetic
\* animation is created and fed the two samples at that moment if kinetic
\* scrolling is enabled for the input type and none exists if it is disabled;
\* and that pressed-move applies scrollTimeTo.
C20_DragBeginsScroll ==
    [][DragMoveBeforeScroll =>
          IF DiffersFromStart
          THEN /\ Called(calls', "startScrollTime")
               /\ isScrolling'
               /\ Called(calls', "scrollTimeTo")
               /\ IF kineticEnabled([type |-> last'.type])
                  THEN AnimationCreatedAndFed
                  ELSE scrollXAnimation' = Null
          ELSE ~Called(calls', "startScrollTime")]_vars

\* C21: after an up has been handled on an attached pane, with no animation
\* frame pending, the start-scroll position is null, also when the drag was a
\* single pressed-move that never started scrolling.
C21_UpClearsStartScrollingPos ==
    (last.op = "up" /\ state = "pane" /\ ticks = <<>>) => startScrollingPos = Null

\* C22: in every state in which the scroll session has just been finalized
\* (by the up handler, by a frame or by termination: the scroll was ended,
\* the scrolling flag is false and the start-scroll position null), the
\* widget holds no kinetic animation instance.
C22_FinalizedSessionHoldsNoAnimation ==
    (Called(calls, "endScrollTime") /\ ~isScrolling /\ startScrollingPos = Null)
        => scrollXAnimation = Null

\* The draws of the views of the ordered sources, on either surface.
SourceDrawCalls == {"drawBackground", "draw", "top.drawBackground", "top.draw"}

HoveredIs(k) == hoveredSource # Null /\ hoveredSource[1].source = k

\* C23: every drawn view of a source receives isHovered = true if and only if
\* the hovered source of the model is set and is that source; the payload it
\* receives is the hitTestData of the hovered object when isHovered is true
\* and a hovered object exists, and undefined in every other case.
C23_HoverPassedToDraws ==
    Painted =>
        \A i \in Idx(SourceDrawCalls) :
            /\ i + 1 \in DOMAIN calls
            /\ calls[i + 1].fn = calls[i].fn \o ".args"
            /\ calls[i + 1].a = 1 <=> HoveredIs(calls[i].a)
            /\ calls[i + 1].a \in {0, 1}
            /\ calls[i + 1].b =
                   (IF HoveredIs(calls[i].a) /\ hoveredSource[1].object # Null
                    THEN hoveredSource[1].object[1].hitTestData
                    ELSE Undefined)

\* A paint while the pointer hovers the second source: its views are drawn
\* hovered with the payload of the object under the pointer, the views of the
\* first source are drawn not hovered with no payload.
C23_Witness ==
    /\ Painted
    /\ HoveredIs(2)
    /\ hoveredSource[1].object # Null
    /\ hoveredSource[1].object[1].hitTestData = 2
    /\ \E i \in Idx({"draw"}) :
           calls[i].a = 2 /\ calls[i + 1] = CallRec("draw.args", 1, 2)
    /\ \E i \in Idx({"drawBackground"}) :
           calls[i].a = 1 /\ calls[i + 1] = CallRec("drawBackground.args", 0, Undefined)

\* C24: pinch-start sets the reference scale to 1; a pinch update with
\* pinch-zoom enabled zooms the time axis at the midpoint x by
\* 5 * (scale - reference scale), once, and sets the reference scale to that
\* scale; a pinch update with pinch-zoom disabled applies no zoom and leaves
\* the reference scale unchanged; so after a pinch-start the zooms applied
\* sum to 5 * (last scale - 1).
C24_PinchZoomsByScaleChange ==
    [][/\ last'.op = "pinchStart" => prevPinchScale' = 1
       /\ (last'.op = "pinch" /\ options.pinch) =>
              /\ calls' = <<CallRec("zoomTime", last'.x, 5 * (last'.n - prevPinchScale))>>
              /\ prevPinchScale' = last'.n
              /\ err' = NoError
       /\ (last'.op = "pinch" /\ ~options.pinch) =>
              /\ calls' = <<>>
              /\ prevPinchScale' = prevPinchScale
       /\ zoomed' # Null => zoomed'[1] = 5 * (prevPinchScale' - 1)]_vars

\* After a pinch-start and an update to scale 2, an update to scale 0 at
\* x = 1 zoomed by -10: the zooms since the start sum to -5.
C24_Witness ==
    /\ last.op = "pinch"
    /\ options.pinch
    /\ zoomed = Some(0 - 5)
    /\ prevPinchScale = 0
    /\ calls = <<CallRec("zoomTime", 1, 0 - 10)>>

\* The calls of a step that destroy or create the widget of side n.
Destroyed(n) == Cardinality({i \in DOMAIN calls' :
                                calls'[i] = CallRec("PriceAxisWidget.destroy", n, 0)})
Created(n) == Cardinality({i \in DOMAIN calls' :
                              calls'[i] = CallRec("new PriceAxisWidget", n, 0)})

\* The widget of side n follows the visibility of its scale: it exists
\* afterwards if and only if the scale is visible, it is destroyed once when
\* it existed and the scale is not visible, created once when it did not
\* exist and the scale is visible, and otherwise neither.
AxisFollows(n, widget, widgetAfter, visible) ==
    /\ widgetAfter # Null <=> visible
    /\ Destroyed(n) = (IF widget # Null /\ ~visible THEN 1 ELSE 0)
    /\ Created(n) = (IF widget = Null /\ visible THEN 1 ELSE 0)

\* C25: after the constructor and after every updatePriceAxisWidgets on an
\* attached pane, setState with a pane included, each axis widget exists if
\* and only if the visible option of its price scale is true; a widget that
\* becomes invisible is destroyed exactly once and an existing visible widget
\* is kept, not recreated.
C25_AxisWidgetsFollowVisibility ==
    /\ last.op = "constructor" =>
           /\ leftPriceAxisWidget # Null <=> leftAxisVisible
           /\ rightPriceAxisWidget # Null <=> rightAxisVisible
    /\ [][(last'.op \in {"updatePriceAxisWidgets", "setState"} /\ state' = "pane") =>
             /\ err' = NoError
             /\ AxisFollows(0, leftPriceAxisWidget, leftPriceAxisWidget',
                            leftAxisVisible)
             /\ AxisFollows(1, rightPriceAxisWidget, rightPriceAxisWidget',
                            rightAxisVisible)]_vars

\* An update after the left scale became visible and the right one invisible
\* while the pane had no left widget: the right widget was destroyed and the
\* left one created.
C25_Witness ==
    /\ last.op = "updatePriceAxisWidgets"
    /\ state = "pane"
    /\ leftAxisVisible /\ ~rightAxisVisible
    /\ leftPriceAxisWidget # Null /\ rightPriceAxisWidget = Null
    /\ calls = <<CallRec("PriceAxisWidget.destroy", 1, 0),
                 CallRec("new PriceAxisWidget", 0, 0),
                 CallRec("setPriceScale", 0, 0)>>

\* The time-axis scroll calls of a list of calls read from call i on, from a
\* scroll that is open or not: "open" or "closed" at the end when every
\* startScrollTime found the scroll closed and every scrollTimeTo and
\* endScrollTime found it open, "unbalanced" otherwise.
RECURSIVE TimeScrollFrom(_, _, _)
TimeScrollFrom(cs, i, open) ==
    IF i > Len(cs) THEN (IF open THEN "open" ELSE "closed")
    ELSE IF cs[i].fn = "startScrollTime"
         THEN (IF open THEN "unbalanced" ELSE TimeScrollFrom(cs, i + 1, TRUE))
    ELSE IF cs[i].fn = "scrollTimeTo"
         THEN (IF open THEN TimeScrollFrom(cs, i + 1, TRUE) ELSE "unbalanced")
    ELSE IF cs[i].fn = "endScrollTime"
         THEN (IF open THEN TimeScrollFrom(cs, i + 1, FALSE) ELSE "unbalanced")
    ELSE TimeScrollFrom(cs, i + 1, open)

\* C26: over every sequence of input events and frames startScrollTime and
\* endScrollTime alternate, starting with startScrollTime, every scrollTimeTo
\* lies between a startScrollTime and its endScrollTime, and the scrolling
\* flag is true exactly between them: the calls of every step are balanced
\* from the flag before the step to the flag after it; and whenever the flag
\* is true the start-scroll position is not null.
C26_TimeScrollWellBracketed ==
    /\ ~isScrolling
    /\ [][/\ TimeScrollFrom(calls', 1, isScrolling)
                 = (IF isScrolling' THEN "open" ELSE "closed")
          /\ isScrolling' => startScrollingPos' # Null]_vars

\* C27: scrollPriceTo and endScrollPrice are applied to the default price
\* scale only in a session at whose start startScrollPrice was applied to
\* it.  The default price scale is empty or not for the whole run here, so
\* a session on an empty scale starts without startScrollPrice and no handler
\* and no frame calls scrollPriceTo or endScrollPrice.
C27_PriceScrollWellBracketed ==
    priceScaleEmpty =>
        /\ ~Called(calls, "startScrollPrice")
        /\ ~CalledAny(calls, {"scrollPriceTo", "endScrollPrice"})

\* C28: in every reachable state, if the track point is set then the initial
\* crosshair position is set too, and the tracking branch of pressed-move
\* never fails on a null initial crosshair position, for every sequence of
\* events, a long-tap on a detached pane included.
C28_TrackPointHasInitialCrosshair ==
    /\ startTrackPoint # Null => initCrosshairPosition # Null
    /\ (last.op = "pressedMove" /\ state = "pane") => err # NullError

\* C29: every crosshair position handed to the model, by whichever handler,
\* lies in the pane: 0 <= x <= max(0, width - 1) and 0 <= y <= max(0,
\* height - 1), for every pane size and every event coordinate.
C29_CrosshairClampedToPane ==
    \A i \in DOMAIN calls :
        calls[i].fn = "setAndSaveCurrentPosition" =>
            /\ 0 <= calls[i].a
            /\ calls[i].a <= (IF size.w - 1 > 0 THEN size.w - 1 ELSE 0)
            /\ 0 <= calls[i].b
            /\ calls[i].b <= (IF size.h - 1 > 0 THEN size.h - 1 ELSE 0)
====
